---- MODULE Spec2Model ----
(***************************************************************************)
(* Mindurka-Reworked (src/main.py): the authoritative world of class Game, *)
(* the player intents that change it, the simulation tick, the power grid  *)
(* and the full-snapshot reconciliation of a client world.                 *)
(*                                                                         *)
(* Units.  The program computes with floats; the model uses fixed point.   *)
(*   time      : milliseconds (dt is clock.tick(FPS) ms / 1000.0)          *)
(*   positions : 1/PX of a pixel                                           *)
(*   hit points: 1/HP of a hit point                                       *)
(*   energy    : power rate x milliseconds (battery charge)                *)
(*   progress  : 1/PROGRESS_ONE of a conveyor tile                         *)
(* Quotients round toward zero, square roots down; the epsilon 1e-9 of the *)
(* source separates zero from positive amounts and is 0 here.              *)
(* A world is a record, so that the same operators act on the host world   *)
(* and on a client world.  Objects are referred to by their network id:    *)
(* a structure's id f"{gx}_{gy}_{b_type}" is the tuple <<gx, gy, b_type>>. *)
(***************************************************************************)
EXTENDS Integers, Sequences, FiniteSets, TLC

\* ------------------------------------------------------------------------
\* Bounds of the model
\* ------------------------------------------------------------------------
\* screen width and height (minus the UI strip), in tiles
GridW == 20
GridH == 4
\* sub-pixel resolution of positions, sub-point resolution of hit points
PX == 10
HP == 1000
\* number of successful intents explored from the initial world
MaxSteps == 3

\* ------------------------------------------------------------------------
\* Program constants (src/main.py, lines 56-199)
\* ------------------------------------------------------------------------
UI_HEIGHT == 140
TILE_SIZE == 32
MS == 1000
STARTING_COPPER == 200
STARTING_COAL == 100
CORE_HP == 1500
PLAYER_BUILD_RADIUS == 8 * TILE_SIZE
MAX_TIER == 3
WALL_HP == 400
COALGENERATOR_HP == 200
POWERPOLE_HP == 80
BATTERY_HP == 250
RECONSTRUCTOR_HP == 300
POWER_RADIUS == 5 * TILE_SIZE
PLAYER_SPEED == 5 * TILE_SIZE
ENEMY_START_HP == 50
ENEMY_HP_INCREASE_PER_WAVE == 20
\* 1.7 * TILE_SIZE pixels a second, in position units a second
ENEMY_SPEED == (17 * TILE_SIZE * PX) \div 10
ENEMY_DAMAGE == 20
ENEMY_ATTACK_COOLDOWN == 900
WAVE_DURATION == 40
WAVE_COOLDOWN == 30
MAX_WAVES == 20
DRILL_OUTPUT_COOLDOWN == 100
TURRET_AMMO_CAPACITY == 12
TURRET_AMMO_CONSUMPTION == 1
\* 7.5 * TILE_SIZE pixels a second
PROJECTILE_SPEED == (15 * TILE_SIZE) \div 2
PROJECTILE_LIFETIME == 2000
TURRET_T3_POWER_CONSUMPTION == 15
COALGENERATOR_INPUT_CAP == 10
COALGENERATOR_CONSUMPTION_RATE == 3000
COALGENERATOR_POWER_OUTPUT == 30
POWER_SEARCH_DEPTH_LIMIT == 15
POWER_NETWORK_STATS_UPDATE_INTERVAL == 300
BATTERY_CAPACITY == 3000
BATTERY_CHARGE_RATE == 40
BATTERY_DISCHARGE_RATE == 40
RECONSTRUCTOR_POWER_CONSUMPTION == 10
RECONSTRUCTOR_REPAIR_RATE == 8
\* 2.5 * TILE_SIZE pixels
RECONSTRUCTOR_REPAIR_RADIUS == (5 * TILE_SIZE) \div 2
\* the check interval of Reconstructor.update
RECONSTRUCTOR_CHECK_INTERVAL == 100
\* item_progress 1.0: a multiple of every transfer_time, so that
\* dt / transfer_time is exact
PROGRESS_ONE == 61600
\* the copper credited for a killed enemy
ENEMY_BOUNTY == 10
RES_COPPER == "copper"
RES_COAL == "coal"

BUILDING_NONE == 0
BUILDING_DRILL == 1
BUILDING_CONVEYOR == 2
BUILDING_TURRET == 3
BUILDING_WALL == 4
BUILDING_COALGENERATOR == 5
BUILDING_POWERPOLE == 6
BUILDING_CORE == 7
BUILDING_RESOURCE == 8
BUILDING_BATTERY == 9
BUILDING_RECONSTRUCTOR == 10

NORTH == 0
EAST == 1
SOUTH == 2
WEST == 3
ORIENTATIONS == << <<0, -1>>, <<1, 0>>, <<0, 1>>, <<-1, 0>> >>

\* cost dictionaries: functions from the resource names they mention
DRILL_COST == [copper |-> 15]
CONVEYOR_COST == [copper |-> 5]
TURRET_COST == [copper |-> 30]
WALL_COST == [copper |-> 10]
COALGENERATOR_COST == [copper |-> 40, coal |-> 25]
POWERPOLE_COST == [copper |-> 15]
BATTERY_COST == [copper |-> 50, coal |-> 15]
RECONSTRUCTOR_COST == [copper |-> 70, coal |-> 40]
NO_COST == [r \in {} |-> 0]

\* upgrade cost dictionaries, keyed by the tier that is bought
DRILL_UPGRADE_COST == [t \in {2, 3} |-> IF t = 2 THEN [copper |-> 40] ELSE [copper |-> 75, coal |-> 20]]
CONVEYOR_UPGRADE_COST == [t \in {2, 3} |-> IF t = 2 THEN [copper |-> 15] ELSE [copper |-> 30, coal |-> 5]]
TURRET_UPGRADE_COST == [t \in {2, 3} |-> IF t = 2 THEN [copper |-> 50, coal |-> 20] ELSE [copper |-> 80, coal |-> 50]]
NO_UPGRADE_COST == [t \in {} |-> NO_COST]

\* per-tier stats; times in ms, hit points in whole points, ranges in pixels
\* DRILL_STATS: (speed, max_hp)
DRILL_STATS == << <<1800, 100>>, <<1400, 140>>, <<1000, 180>> >>
\* CONVEYOR_STATS: (transfer_time, max_hp, capacity)
CONVEYOR_STATS == << <<800, 50, 1>>, <<550, 70, 2>>, <<350, 90, 3>> >>
\* TURRET_STATS: (range, damage, fire_rate, max_hp); 5.5 tiles = 176 px
TURRET_STATS == << <<5 * TILE_SIZE, 30, 450, 150>>, <<176, 40, 400, 220>>, <<6 * TILE_SIZE, 55, 300, 300>> >>

\* ------------------------------------------------------------------------
\* Values and helpers
\* ------------------------------------------------------------------------
\* Python's None, as a grid occupant, an item type or a reference
None == [k |-> "none"]

Min(a, b) == IF a < b THEN a ELSE b
Max(a, b) == IF a > b THEN a ELSE b

\* grid_to_world_center, in position units
grid_to_world_center(gx, gy) == << ((2 * gx + 1) * TILE_SIZE * PX) \div 2, ((2 * gy + 1) * TILE_SIZE * PX) \div 2 >>

distance_sq(x1, y1, x2, y2) == (x1 - x2) * (x1 - x2) + (y1 - y2) * (y1 - y2)

\* half of the amount, rounded up
RefundOf_rounded_up(amount) == (amount + 1) \div 2

\* int(amount * DELETE_REFUND_RATIO) with DELETE_REFUND_RATIO = 0.5
RefundOf(amount) == amount \div 2

\* a reference slot that holds no structure id / no enemy id / no resource type
NoStruct == << >>
NoCoords == << >>
NoEnemy == -1
MAX_PLAYERS == 10
\* the interval of the state broadcasts, in ms
DEFAULT_NETWORK_UPDATE_INTERVAL == 50
NoRes == "None"

Remove(seq, x) == SelectSeq(seq, LAMBDA e : e # x)
InSeq(seq, x) == \E i \in 1..Len(seq) : seq[i] = x
AppendNew(seq, x) == IF InSeq(seq, x) THEN seq ELSE Append(seq, x)

\* function f without the key k / with the key k bound to v
Without(f, k) == [x \in DOMAIN f \ {k} |-> f[x]]
With(f, k, v) == [x \in DOMAIN f \cup {k} |-> IF x = k THEN v ELSE f[x]]

\* ------------------------------------------------------------------------
\* Structures (class Structure and its subclasses)
\* ------------------------------------------------------------------------
\* class attributes that depend on the class only
StructureCost(b_type) ==
  CASE b_type = BUILDING_DRILL -> DRILL_COST
    [] b_type = BUILDING_CONVEYOR -> CONVEYOR_COST
    [] b_type = BUILDING_TURRET -> TURRET_COST
    [] b_type = BUILDING_WALL -> WALL_COST
    [] b_type = BUILDING_COALGENERATOR -> COALGENERATOR_COST
    [] b_type = BUILDING_POWERPOLE -> POWERPOLE_COST
    [] b_type = BUILDING_BATTERY -> BATTERY_COST
    [] b_type = BUILDING_RECONSTRUCTOR -> RECONSTRUCTOR_COST
    [] OTHER -> NO_COST

StructureUpgradeCost(b_type) ==
  CASE b_type = BUILDING_DRILL -> DRILL_UPGRADE_COST
    [] b_type = BUILDING_CONVEYOR -> CONVEYOR_UPGRADE_COST
    [] b_type = BUILDING_TURRET -> TURRET_UPGRADE_COST
    [] OTHER -> NO_UPGRADE_COST

StructureMaxTier(b_type) ==
  IF b_type \in {BUILDING_DRILL, BUILDING_CONVEYOR, BUILDING_TURRET} THEN MAX_TIER ELSE 1

\* the power roles a structure object carries: set by the constructors, and
\* for a turret by update_stats from its tier
is_power_node(s) == s.building_type \in {BUILDING_COALGENERATOR, BUILDING_POWERPOLE, BUILDING_BATTERY}
is_power_storage(s) == s.building_type = BUILDING_BATTERY
is_power_consumer(s) ==
  \/ s.building_type = BUILDING_RECONSTRUCTOR
  \/ s.building_type = BUILDING_TURRET /\ s.tier = 3
is_power_source(s) == s.building_type = BUILDING_COALGENERATOR /\ s.is_generating

Structure(gx, gy, hp, b_type) ==
  [ network_id |-> <<gx, gy, b_type>>, building_type |-> b_type,
    grid_x |-> gx, grid_y |-> gy, max_hp |-> hp * HP, hp |-> hp * HP,
    destroyed |-> FALSE, is_on_grid |-> FALSE, is_powered |-> FALSE,
    connected_nodes_coords |-> << >>, power_source_coords |-> NoCoords, tier |-> 1 ]

\* s extended with the attributes of a subclass
Extend(s, more) == [f \in DOMAIN s \cup DOMAIN more |-> IF f \in DOMAIN more THEN more[f] ELSE s[f]]

Drill_update_stats(s) ==
  IF s.tier \in 1..Len(DRILL_STATS) THEN [s EXCEPT !.max_hp = DRILL_STATS[s.tier][2] * HP] ELSE s

Conveyor_capacity(s) == IF s.tier \in 1..Len(CONVEYOR_STATS) THEN CONVEYOR_STATS[s.tier][3] ELSE CONVEYOR_STATS[1][3]

Conveyor_update_stats(s) ==
  LET s1 == IF s.tier \in 1..Len(CONVEYOR_STATS) THEN [s EXCEPT !.max_hp = CONVEYOR_STATS[s.tier][2] * HP] ELSE s
      cnt == Min(s1.item_count, Conveyor_capacity(s1))
  IN [s1 EXCEPT !.item_count = cnt, !.item_type = IF cnt = 0 THEN NoRes ELSE @]

Turret_update_stats(s) ==
  LET s1 == IF s.tier \in 1..Len(TURRET_STATS) THEN [s EXCEPT !.max_hp = TURRET_STATS[s.tier][4] * HP, !.ammo = 0] ELSE s
  IN IF s1.tier = 3 THEN s1 ELSE [s1 EXCEPT !.is_powered = FALSE]

update_stats(s) ==
  CASE s.building_type = BUILDING_DRILL -> Drill_update_stats(s)
    [] s.building_type = BUILDING_CONVEYOR -> Conveyor_update_stats(s)
    [] s.building_type = BUILDING_TURRET -> Turret_update_stats(s)
    [] OTHER -> s

Core(gx, gy) == Structure(gx, gy, CORE_HP, BUILDING_CORE)

Drill(gx, gy) ==
  Drill_update_stats(Extend(Structure(gx, gy, DRILL_STATS[1][2], BUILDING_DRILL),
    [ mining_timer |-> 0, output_timer |-> 0, resource_held_count |-> 0,
      resource_type_held |-> NoRes, is_on_patch |-> FALSE ]))

Conveyor(gx, gy, orientation) ==
  Conveyor_update_stats(Extend(Structure(gx, gy, CONVEYOR_STATS[1][2], BUILDING_CONVEYOR),
    [ orientation |-> orientation, item_progress |-> 0, item_type |-> NoRes, item_count |-> 0 ]))

\* fire_timer starts at random.uniform(0, fire_rate): the constructor's input
Turret(gx, gy, fire_timer) ==
  Turret_update_stats(Extend(Structure(gx, gy, TURRET_STATS[1][4], BUILDING_TURRET),
    [ fire_timer |-> fire_timer, ammo |-> 0, target_id |-> NoEnemy ]))

Wall(gx, gy) == Structure(gx, gy, WALL_HP, BUILDING_WALL)

CoalGenerator(gx, gy) ==
  Extend(Structure(gx, gy, COALGENERATOR_HP, BUILDING_COALGENERATOR),
    [ coal_buffer |-> 0, consume_timer |-> 0, is_generating |-> FALSE ])

PowerPole(gx, gy) == Structure(gx, gy, POWERPOLE_HP, BUILDING_POWERPOLE)

Battery(gx, gy) ==
  Extend(Structure(gx, gy, BATTERY_HP, BUILDING_BATTERY),
    [ charge |-> 0, is_charging |-> FALSE, is_discharging |-> FALSE ])

Reconstructor(gx, gy) ==
  Extend(Structure(gx, gy, RECONSTRUCTOR_HP, BUILDING_RECONSTRUCTOR), [ repair_timer |-> 0 ])

\* Game.building_info: the classes a player can build
building_info == { BUILDING_DRILL, BUILDING_CONVEYOR, BUILDING_TURRET, BUILDING_WALL,
                   BUILDING_COALGENERATOR, BUILDING_POWERPOLE, BUILDING_BATTERY, BUILDING_RECONSTRUCTOR }

\* BuildingClass(gx, gy) or, for a conveyor, BuildingClass(gx, gy, orientation)
NewStructure(b_type, gx, gy, orientation, fire_timer) ==
  CASE b_type = BUILDING_DRILL -> Drill(gx, gy)
    [] b_type = BUILDING_CONVEYOR -> Conveyor(gx, gy, orientation)
    [] b_type = BUILDING_TURRET -> Turret(gx, gy, fire_timer)
    [] b_type = BUILDING_WALL -> Wall(gx, gy)
    [] b_type = BUILDING_COALGENERATOR -> CoalGenerator(gx, gy)
    [] b_type = BUILDING_POWERPOLE -> PowerPole(gx, gy)
    [] b_type = BUILDING_BATTERY -> Battery(gx, gy)
    [] b_type = BUILDING_RECONSTRUCTOR -> Reconstructor(gx, gy)

can_upgrade(s) ==
  /\ s.tier < StructureMaxTier(s.building_type)
  /\ (s.tier + 1) \in DOMAIN StructureUpgradeCost(s.building_type)

get_next_upgrade_cost(s) == StructureUpgradeCost(s.building_type)[s.tier + 1]

\* an upgrade that repairs: hp is set to the new maximum
apply_upgrade_full_hp(s) ==
  LET s1 == update_stats([s EXCEPT !.tier = @ + 1])
  IN [s1 EXCEPT !.hp = s1.max_hp]

\* Structure.apply_upgrade, for a structure that can_upgrade:
\* hp = min(max_hp, max_hp * (hp / old max_hp)), raised to 1 when below 1
apply_upgrade(s) ==
  LET old_max == s.max_hp
      s1 == update_stats([s EXCEPT !.tier = @ + 1])
      \* max_hp is a whole number of points: the quotient is taken with the
      \* maxima in points, which keeps the product within 32 bits
      scaled == IF old_max > 0 THEN ((s1.max_hp \div HP) * s.hp) \div (old_max \div HP) ELSE s1.max_hp
      hp1 == Min(s1.max_hp, scaled)
  IN [s1 EXCEPT !.hp = IF s1.max_hp > 0 /\ hp1 < HP THEN HP ELSE hp1]

\* ------------------------------------------------------------------------
\* The world of a Game object, as a record g
\*   g.grid        the occupied cells of self.grid: cell -> occupant, where
\*                 an occupant is a ResourcePatch object or a structure
\*   g.structures  self.structures: network id -> structure
\*   g.order       the insertion order of self.structures
\*   g.power_nodes, g.power_consumers  the lists, as sequences of ids
\* ------------------------------------------------------------------------
ResourcePatch(resource_type) == [k |-> "patch", resource_type |-> resource_type]
Ref(sid) == [k |-> "struct", id |-> sid]
IsPatch(occ) == occ.k = "patch"
IsRef(occ) == occ.k = "struct"

InGrid(g, gx, gy) == 0 <= gx /\ gx < g.grid_width /\ 0 <= gy /\ gy < g.grid_height

get_structure_at(g, gx, gy) ==
  IF InGrid(g, gx, gy) /\ <<gx, gy>> \in DOMAIN g.grid THEN g.grid[<<gx, gy>>] ELSE None

\* self.grid[gx][gy] = occ
GridSet(grid, cell, occ) == IF occ = None THEN Without(grid, cell) ELSE With(grid, cell, occ)

\* the building_type of a grid occupant
OccupantType(occ) == IF IsPatch(occ) THEN BUILDING_RESOURCE ELSE occ.id[3]

update_power_lists_add(g, obj) ==
  IF g.network_mode = "client" THEN g
  ELSE [g EXCEPT !.power_nodes = IF is_power_node(obj) THEN AppendNew(@, obj.network_id) ELSE @,
                 !.power_consumers = IF is_power_consumer(obj) THEN AppendNew(@, obj.network_id) ELSE @]

update_power_lists_remove(g, obj) ==
  IF g.network_mode = "client" THEN g
  ELSE [g EXCEPT !.power_nodes = IF is_power_node(obj) THEN Remove(@, obj.network_id) ELSE @,
                 !.power_consumers = IF is_power_consumer(obj) THEN Remove(@, obj.network_id) ELSE @]

rebuild_power_lists(g) ==
  IF g.network_mode = "client" THEN g
  ELSE [g EXCEPT !.power_nodes = SelectSeq(g.order, LAMBDA sid : is_power_node(g.structures[sid])),
                 !.power_consumers = SelectSeq(g.order, LAMBDA sid : is_power_consumer(g.structures[sid]))]

\* self.core, which stays referenced after the core left the registry
CoreRef(sid) == [k |-> "ref", id |-> sid]
CoreGone(obj) == [k |-> "gone", obj |-> obj]
CoreObj(g) == IF g.core.k = "ref" THEN g.structures[g.core.id] ELSE g.core.obj

\* a removal that leaves the structure in its cell
remove_structure_from_game_keeps_cell(g, obj) ==
  LET removed_id == obj.network_id
      g1 == IF removed_id \in DOMAIN g.structures
            THEN [g EXCEPT !.structures = Without(@, removed_id), !.order = Remove(@, removed_id),
                           !.core = IF @.k = "ref" /\ @.id = removed_id THEN CoreGone(obj) ELSE @]
            ELSE g
  IN update_power_lists_remove(g1, obj)

\* self.core keeps its object when that object leaves the registry
remove_structure_from_game(g, obj) ==
  LET gx == obj.grid_x
      gy == obj.grid_y
      removed_id == obj.network_id
      g1 == IF removed_id \in DOMAIN g.structures
            THEN [g EXCEPT !.structures = Without(@, removed_id), !.order = Remove(@, removed_id),
                           !.core = IF @.k = "ref" /\ @.id = removed_id THEN CoreGone(obj) ELSE @]
            ELSE g
      g2 == update_power_lists_remove(g1, obj)
  IN IF InGrid(g2, gx, gy) /\ get_structure_at(g2, gx, gy) = Ref(removed_id)
     THEN [g2 EXCEPT !.grid = IF <<gx, gy>> \in DOMAIN g2.base_terrain
                               THEN GridSet(@, <<gx, gy>>, ResourcePatch(g2.base_terrain[<<gx, gy>>]))
                               ELSE GridSet(@, <<gx, gy>>, None)]
     ELSE g2

Drill_setup_on_patch(g, s) ==
  IF <<s.grid_x, s.grid_y>> \in DOMAIN g.base_terrain /\ g.base_terrain[<<s.grid_x, s.grid_y>>] \in {RES_COPPER, RES_COAL}
  THEN [s EXCEPT !.resource_type_held = g.base_terrain[<<s.grid_x, s.grid_y>>], !.is_on_patch = TRUE]
  ELSE [s EXCEPT !.is_on_patch = FALSE]

\* returns [game, ret]
add_structure_to_game(g, structure_obj) ==
  LET gx == structure_obj.grid_x
      gy == structure_obj.grid_y
  IN IF ~InGrid(g, gx, gy) THEN [game |-> g, ret |-> FALSE]
     ELSE
       LET existing_on_grid == get_structure_at(g, gx, gy)
           is_drill_on_patch == structure_obj.building_type = BUILDING_DRILL /\ IsPatch(existing_on_grid)
           g1 == IF ~is_drill_on_patch /\ existing_on_grid # None /\ OccupantType(existing_on_grid) # BUILDING_RESOURCE
                 THEN remove_structure_from_game(g, g.structures[existing_on_grid.id])
                 ELSE g
           obj == IF structure_obj.building_type = BUILDING_DRILL /\ g.network_mode # "client"
                  THEN Drill_setup_on_patch(g1, structure_obj)
                  ELSE structure_obj
           g2 == [g1 EXCEPT !.grid = GridSet(@, <<gx, gy>>, Ref(obj.network_id)),
                            !.structures = With(@, obj.network_id, obj),
                            !.order = AppendNew(@, obj.network_id)]
       IN [game |-> update_power_lists_add(g2, obj), ret |-> TRUE]

\* ------------------------------------------------------------------------
\* Player actions (authoritative logic of the host / single player)
\* Each operator yields [game, ret, line]: the world after the call, the
\* returned value and the source line of the return statement taken.
\* ------------------------------------------------------------------------
Returned(g, ret, line) == [game |-> g, ret |-> ret, line |-> line]

\* self.resources.get(res, 0)
ResGet(resources, res) == IF res \in DOMAIN resources THEN resources[res] ELSE 0

\* all(self.resources.get(res, 0) >= amount for res, amount in cost.items())
CanAfford(resources, cost) == \A res \in DOMAIN cost : ResGet(resources, res) >= cost[res]

\* for res, amount in cost.items(): self.resources[res] -= amount
Deduct(resources, cost) == [res \in DOMAIN resources |-> IF res \in DOMAIN cost THEN resources[res] - cost[res] ELSE resources[res]]

\* for res, amount in cost.items(): self.resources[res] += amount
Refund(resources, cost) == [res \in DOMAIN resources |-> IF res \in DOMAIN cost THEN resources[res] + cost[res] ELSE resources[res]]

\* self.resources[res] = self.resources.get(res, 0) + int(amount * DELETE_REFUND_RATIO)
RefundHalf(resources, cost) ==
  [res \in DOMAIN resources \cup DOMAIN cost |-> ResGet(resources, res) + (IF res \in DOMAIN cost THEN RefundOf(cost[res]) ELSE 0)]

\* distance_sq(player, centre of the tile) > PLAYER_BUILD_RADIUS^2
OutOfBuildRadius(player, gx, gy) ==
  LET c == grid_to_world_center(gx, gy)
  IN distance_sq(player.world_x, player.world_y, c[1], c[2]) > (PLAYER_BUILD_RADIUS * PX) * (PLAYER_BUILD_RADIUS * PX)

\* place_rejected_at without the test that the tile is empty
place_rejected_at_occupied_ok(g, player_id, building_type, gx, gy) ==
  IF g.network_mode = "client" THEN 1662
  ELSE IF player_id \notin DOMAIN g.players \/ building_type \notin building_info \/ building_type = BUILDING_NONE THEN 1665
  ELSE IF ~InGrid(g, gx, gy) THEN 1668
  ELSE IF ~CanAfford(g.resources, StructureCost(building_type)) THEN 1670
  ELSE IF OutOfBuildRadius(g.players[player_id], gx, gy) THEN 1673
  ELSE IF building_type = BUILDING_DRILL /\ ~IsPatch(get_structure_at(g, gx, gy)) THEN 1683 ELSE 0

\* the tests of action_place_structure without the test of the cost
place_rejected_at_on_credit(g, player_id, building_type, gx, gy) ==
  IF g.network_mode = "client" THEN 1662
  ELSE IF player_id \notin DOMAIN g.players \/ building_type \notin building_info \/ building_type = BUILDING_NONE THEN 1665
  ELSE IF ~InGrid(g, gx, gy) THEN 1668
  ELSE IF OutOfBuildRadius(g.players[player_id], gx, gy) THEN 1673
  ELSE LET existing == get_structure_at(g, gx, gy)
           is_drill_on_patch == building_type = BUILDING_DRILL /\ IsPatch(existing)
           is_empty == existing = None
       IN IF ~(is_drill_on_patch \/ (is_empty /\ building_type # BUILDING_DRILL)) THEN 1683 ELSE 0

\* "1. Check Validity" of action_place_structure: the line of the return
\* statement that rejects the intent, or 0 when every test passes
place_rejected_at(g, player_id, building_type, gx, gy) ==
  IF g.network_mode = "client" THEN 1662
  ELSE IF player_id \notin DOMAIN g.players \/ building_type \notin building_info \/ building_type = BUILDING_NONE THEN 1665
  ELSE IF ~InGrid(g, gx, gy) THEN 1668
  ELSE IF ~CanAfford(g.resources, StructureCost(building_type)) THEN 1670
  ELSE IF OutOfBuildRadius(g.players[player_id], gx, gy) THEN 1673
  ELSE LET existing == get_structure_at(g, gx, gy)
           is_drill_on_patch == building_type = BUILDING_DRILL /\ IsPatch(existing)
           is_empty == existing = None
       IN IF ~(is_drill_on_patch \/ (is_empty /\ building_type # BUILDING_DRILL)) THEN 1683 ELSE 0

\* "2. Deduct Cost & Create Structure" and "3. Add to Game State"
place_create(g, building_type, gx, gy, orientation, fire_timer) ==
  LET cost == StructureCost(building_type)
      g1 == [g EXCEPT !.resources = Deduct(@, cost)]
      new_structure == NewStructure(building_type, gx, gy, orientation, fire_timer)
      added == add_structure_to_game(g1, new_structure)
  IN IF ~added.ret
     THEN Returned([added.game EXCEPT !.resources = Refund(@, cost)], FALSE, 1707)
     ELSE Returned(added.game, TRUE, 1717)

\* action_place_structure with the cost deducted before the radius and tile tests
action_place_structure_pays_first(g, player_id, building_type, gx, gy, orientation, fire_timer) ==
  LET line == place_rejected_at(g, player_id, building_type, gx, gy)
  IN IF line \in {1673, 1683}
     THEN Returned([g EXCEPT !.resources = Deduct(@, StructureCost(building_type))], FALSE, line)
     ELSE IF line # 0 THEN Returned(g, FALSE, line)
     ELSE place_create(g, building_type, gx, gy, orientation, fire_timer)

action_place_structure(g, player_id, building_type, gx, gy, orientation, fire_timer) ==
  LET line == place_rejected_at(g, player_id, building_type, gx, gy)
  IN IF line # 0 THEN Returned(g, FALSE, line)
     ELSE place_create(g, building_type, gx, gy, orientation, fire_timer)

\* remove_rejected_at without the protection of the Core
remove_rejected_at_core_ok(g, player_id, gx, gy) ==
  LET struct_to_remove == get_structure_at(g, gx, gy)
  IN IF g.network_mode = "client" THEN 1721
     ELSE IF player_id \notin DOMAIN g.players \/ struct_to_remove = None THEN 1724
     ELSE IF OccupantType(struct_to_remove) = BUILDING_RESOURCE THEN 1727
     ELSE IF OutOfBuildRadius(g.players[player_id], gx, gy) THEN 1730
     ELSE 0

\* "1. Check Validity" of action_remove_structure
remove_rejected_at(g, player_id, gx, gy) ==
  LET struct_to_remove == get_structure_at(g, gx, gy)
  IN IF g.network_mode = "client" THEN 1721
     ELSE IF player_id \notin DOMAIN g.players \/ struct_to_remove = None THEN 1724
     ELSE IF OccupantType(struct_to_remove) \in {BUILDING_CORE, BUILDING_RESOURCE} THEN 1727
     ELSE IF OutOfBuildRadius(g.players[player_id], gx, gy) THEN 1730
     ELSE 0

\* "2. Refund Resources & Remove Structure"
remove_refund(g, gx, gy) ==
  LET obj == g.structures[get_structure_at(g, gx, gy).id]
      g1 == [g EXCEPT !.resources = RefundHalf(@, StructureCost(obj.building_type))]
  IN Returned(remove_structure_from_game(g1, obj), TRUE, 1744)

action_remove_structure(g, player_id, gx, gy) ==
  LET line == remove_rejected_at(g, player_id, gx, gy)
  IN IF line # 0 THEN Returned(g, FALSE, line) ELSE remove_refund(g, gx, gy)

\* "1. Check Validity" of action_upgrade_structure; a ResourcePatch on the
\* tile has tier 1 and max_tier 1, so that it cannot be upgraded
upgrade_rejected_at(g, player_id, gx, gy) ==
  LET occ == get_structure_at(g, gx, gy)
  IN IF g.network_mode = "client" THEN 1748
     ELSE IF player_id \notin DOMAIN g.players \/ occ = None THEN 1751
     ELSE IF OutOfBuildRadius(g.players[player_id], gx, gy) THEN 1756
     ELSE IF IsPatch(occ) \/ ~can_upgrade(g.structures[occ.id]) THEN 1757
     ELSE IF ~CanAfford(g.resources, get_next_upgrade_cost(g.structures[occ.id])) THEN 1761
     ELSE 0

\* "2. Deduct Cost & Apply Upgrade" and "3. Handle State Changes"
upgrade_apply(g, gx, gy) ==
  LET sid == get_structure_at(g, gx, gy).id
      target == g.structures[sid]
      cost == get_next_upgrade_cost(target)
      was_consumer == is_power_consumer(target)
      was_node == is_power_node(target)
      upgraded == apply_upgrade(target)
      g1 == [g EXCEPT !.resources = Deduct(@, cost), !.structures[sid] = upgraded]
      g2 == IF is_power_consumer(upgraded) # was_consumer \/ is_power_node(upgraded) # was_node
            THEN update_power_lists_add(update_power_lists_remove(g1, upgraded), upgraded)
            ELSE g1
  IN Returned(g2, TRUE, 1793)

\* action_upgrade_structure with the cost deducted before the affordability test
action_upgrade_structure_pays_first(g, player_id, gx, gy) ==
  LET line == upgrade_rejected_at(g, player_id, gx, gy)
  IN IF line = 1761
     THEN Returned([g EXCEPT !.resources = Deduct(@, get_next_upgrade_cost(g.structures[get_structure_at(g, gx, gy).id]))], FALSE, line)
     ELSE IF line # 0 THEN Returned(g, FALSE, line) ELSE upgrade_apply(g, gx, gy)

action_upgrade_structure(g, player_id, gx, gy) ==
  LET line == upgrade_rejected_at(g, player_id, gx, gy)
  IN IF line # 0 THEN Returned(g, FALSE, line) ELSE upgrade_apply(g, gx, gy)

\* ------------------------------------------------------------------------
\* Construction of a world: Game.__init__ and Game.setup_world
\* ------------------------------------------------------------------------
Player(start_x, start_y, player_id, name, color_index) ==
  [ player_id |-> player_id, world_x |-> start_x, world_y |-> start_y,
    move_x |-> 0, move_y |-> 0, name |-> name, color_index |-> color_index ]

\* the attributes of a Game object before setup_world or a snapshot fills it,
\* for a screen of gw x gh tiles above the UI strip
BlankGame(network_mode, gw, gh) ==
  [ network_mode |-> network_mode,
    grid_width |-> gw, grid_height |-> gh,
    map_width_px |-> gw * TILE_SIZE * PX, map_height_px |-> gh * TILE_SIZE * PX,
    resources |-> [copper |-> STARTING_COPPER, coal |-> STARTING_COAL],
    wave_number |-> 0, wave_timer |-> WAVE_COOLDOWN * MS, in_wave |-> FALSE,
    game_over |-> FALSE, game_won |-> FALSE,
    grid |-> [c \in {} |-> None], structures |-> [s \in {} |-> None], order |-> << >>,
    enemies |-> << >>, projectiles |-> << >>, core |-> None,
    base_terrain |-> [c \in {} |-> NoRes], players |-> [p \in {} |-> None],
    power_nodes |-> << >>, power_consumers |-> << >>, power_grid_update_timer |-> 0,
    enemies_to_spawn_this_wave |-> 0, enemies_spawned_this_wave |-> 0,
    enemy_spawn_timer |-> 0, current_enemy_hp |-> ENEMY_START_HP * HP,
    max_waves |-> MAX_WAVES, next_enemy_id |-> 0, next_projectile_id |-> 0 ]

\* the random patch placement of setup_world: cells in the order they were
\* accepted.  The k-th accepted patch is coal when k is a multiple of 4.
PatchType(k) == IF k % 4 = 0 THEN RES_COAL ELSE RES_COPPER
NumPatches(gw, gh) == (65 * (gw * gh)) \div (40 * 19)
CoreCell(gw, gh) == << Max(0, Min(gw \div 2, gw - 1)), Max(0, Min(gh - 4, gh - 1)) >>

\* the tests setup_world makes before it accepts the k-th cell
PatchAccepted(gw, gh, cells, k) ==
  LET c == cells[k]
      core == CoreCell(gw, gh)
  IN /\ 1 <= c[1] /\ c[1] <= gw - 2 /\ 1 <= c[2] /\ c[2] <= gh - 2
     /\ c # core
     /\ \A j \in 1..(k - 1) : cells[j] # c
     /\ (c[1] - core[1]) * (c[1] - core[1]) + (c[2] - core[2]) * (c[2] - core[2]) > 6 * 6
     /\ \A j \in 1..(k - 1) : ~(cells[j][1] - c[1] \in -1..1 /\ cells[j][2] - c[2] \in -1..1)

ValidTerrain(gw, gh, cells) ==
  /\ Len(cells) <= NumPatches(gw, gh)
  /\ \A k \in 1..Len(cells) : PatchAccepted(gw, gh, cells, k)

setup_world(g, cells) ==
  LET cc == CoreCell(g.grid_width, g.grid_height)
      core == Core(cc[1], cc[2])
      g1 == add_structure_to_game(
              [g EXCEPT !.base_terrain = [c \in {} |-> NoRes], !.structures = [s \in {} |-> None],
                        !.order = << >>, !.enemies = << >>, !.projectiles = << >>,
                        !.players = [p \in {} |-> None], !.grid = [c \in {} |-> None]],
              core).game
      start == grid_to_world_center(cc[1], cc[2] - 2)
      player_start_x == Max(TILE_SIZE * PX, Min(start[1], g.map_width_px - TILE_SIZE * PX))
      player_start_y == Max(TILE_SIZE * PX, Min(start[2], g.map_height_px - TILE_SIZE * PX))
      terrain == [c \in {cells[k] : k \in 1..Len(cells)} |-> PatchType(CHOOSE k \in 1..Len(cells) : cells[k] = c)]
      g2 == [g1 EXCEPT !.core = CoreRef(core.network_id),
                       !.players = With(@, 0, Player(player_start_x, player_start_y, 0, "Player0", 0)),
                       !.base_terrain = terrain,
                       !.grid = [c \in DOMAIN @ \cup DOMAIN terrain |->
                                   IF c \in DOMAIN terrain THEN ResourcePatch(terrain[c]) ELSE @[c]]]
  IN rebuild_power_lists(g2)

\* candidate outcomes of the random placement, as sequences of cells
MainTerrain == << <<3, 1>>, <<1, 2>>, <<18, 1>>, <<16, 2>> >>
CandidateTerrains == { MainTerrain, << <<16, 2>>, <<3, 2>> >> }

TerrainLayouts == { t \in CandidateTerrains : ValidTerrain(GridW, GridH, t) }

NewGame(network_mode, cells) == setup_world(BlankGame(network_mode, GridW, GridH), cells)

\* ------------------------------------------------------------------------
\* Simulation: entities and the per-frame update of the structures
\* ------------------------------------------------------------------------
\* a / b rounded toward zero, for b > 0
Quot(a, b) == IF a >= 0 THEN a \div b ELSE -((-a) \div b)

RECURSIVE SqrtBetween(_, _, _)
SqrtBetween(n, lo, hi) ==
  IF lo >= hi THEN lo
  ELSE LET mid == (lo + hi + 1) \div 2
       IN IF mid * mid <= n THEN SqrtBetween(n, mid, hi) ELSE SqrtBetween(n, lo, mid - 1)

\* math.sqrt, rounded down
ISqrt(n) == SqrtBetween(n, 0, Min(n, 46340))

\* the centre of a structure, in position units
Center(s) == grid_to_world_center(s.grid_x, s.grid_y)

\* world_to_grid
world_to_grid(x, y) == << x \div (TILE_SIZE * PX), y \div (TILE_SIZE * PX) >>

Enemy(sx, sy, target_core_coords, hp, speed, dmg, atk_cd, network_id) ==
  [ network_id |-> network_id, world_x |-> sx, world_y |-> sy,
    target_core_coords |-> target_core_coords, current_attack_target_id |-> NoStruct,
    max_hp |-> hp, hp |-> hp, speed |-> speed, damage |-> dmg,
    attack_cooldown |-> atk_cd, attack_timer |-> 0, destroyed |-> FALSE ]

\* Projectile.__init__ with a target enemy and no given velocity
Projectile(sx, sy, target, speed, dmg, network_id) ==
  LET dx == target.world_x - sx
      dy == target.world_y - sy
      dist == Max(1, ISqrt(dx * dx + dy * dy))
  IN [ network_id |-> network_id, world_x |-> sx, world_y |-> sy,
       target_enemy_id |-> target.network_id, speed |-> speed, damage |-> dmg,
       destroyed |-> FALSE, lifetime |-> PROJECTILE_LIFETIME,
       vx |-> Quot(dx * speed * PX, dist), vy |-> Quot(dy * speed * PX, dist) ]

\* Projectile.__init__ with a given velocity and no target (client side)
ProjectileWithVelocity(sx, sy, speed, dmg, network_id, vx, vy) ==
  [ network_id |-> network_id, world_x |-> sx, world_y |-> sy,
    target_enemy_id |-> NoEnemy, speed |-> speed, damage |-> dmg,
    destroyed |-> FALSE, lifetime |-> PROJECTILE_LIFETIME, vx |-> vx, vy |-> vy ]

\* index of the entity with the given id in a registry kept as a sequence
\* in insertion order; 0 when there is none
IndexOf(seq, id) ==
  IF \E i \in 1..Len(seq) : seq[i].network_id = id
  THEN CHOOSE i \in 1..Len(seq) : seq[i].network_id = id
  ELSE 0

\* Player.update
Player_update(p, dt, g) ==
  LET mag_sq == p.move_x * p.move_x + p.move_y * p.move_y
      mag == ISqrt(mag_sq * MS * MS)
      step_x == IF mag_sq > 0 THEN Quot(p.move_x * PLAYER_SPEED * PX * dt, mag) ELSE 0
      step_y == IF mag_sq > 0 THEN Quot(p.move_y * PLAYER_SPEED * PX * dt, mag) ELSE 0
      radius == (TILE_SIZE * PX * 4) \div 10
  IN [p EXCEPT !.world_x = Max(radius, Min(p.world_x + step_x, g.map_width_px - radius)),
               !.world_y = Max(radius, Min(p.world_y + step_y, g.map_height_px - radius))]

\* try_accept_item of the occupant of a tile, by class: [game, ret]
try_accept_item(g, occ, item_type) ==
  LET no == [game |-> g, ret |-> FALSE]
      t == g.structures[occ.id]
  IN IF occ = None \/ ~IsRef(occ) THEN no
     ELSE CASE t.building_type = BUILDING_CORE ->
                 IF item_type \in DOMAIN g.resources
                 THEN [game |-> [g EXCEPT !.resources[item_type] = @ + 1], ret |-> TRUE]
                 ELSE no
            [] t.building_type = BUILDING_CONVEYOR ->
                 IF t.item_count < Conveyor_capacity(t) /\ t.item_count = 0
                 THEN [game |-> [g EXCEPT !.structures[occ.id] =
                                   [t EXCEPT !.item_type = item_type, !.item_progress = 0, !.item_count = 1]],
                       ret |-> TRUE]
                 ELSE IF t.item_count < Conveyor_capacity(t) /\ item_type = t.item_type
                 THEN [game |-> [g EXCEPT !.structures[occ.id].item_count = @ + 1], ret |-> TRUE]
                 ELSE no
            [] t.building_type = BUILDING_TURRET ->
                 IF item_type = RES_COPPER /\ t.tier < 3 /\ t.ammo < TURRET_AMMO_CAPACITY
                 THEN [game |-> [g EXCEPT !.structures[occ.id].ammo = @ + 1], ret |-> TRUE]
                 ELSE no
            [] t.building_type = BUILDING_COALGENERATOR ->
                 IF item_type = RES_COAL /\ t.coal_buffer < COALGENERATOR_INPUT_CAP
                 THEN [game |-> [g EXCEPT !.structures[occ.id].coal_buffer = @ + 1], ret |-> TRUE]
                 ELSE no
            [] OTHER -> no

\* Structure.get_neighbor
get_neighbor(g, s, direction_index) ==
  get_structure_at(g, s.grid_x + ORIENTATIONS[direction_index + 1][1], s.grid_y + ORIENTATIONS[direction_index + 1][2])

\* Drill.try_output_resource: the neighbours are shuffled and the first one
\* that accepts gets the item, so that any accepting neighbour may get it;
\* pick selects it
Drill_try_output_resource(g, sid, pick) ==
  LET s == g.structures[sid]
      accepting == SelectSeq(<<NORTH, EAST, SOUTH, WEST>>,
                     LAMBDA d : try_accept_item(g, get_neighbor(g, s, d), s.resource_type_held).ret)
  IN IF accepting = << >> THEN [game |-> g, ret |-> FALSE]
     ELSE try_accept_item(g, get_neighbor(g, s, accepting[(pick % Len(accepting)) + 1]), s.resource_type_held)

Drill_speed(s) == DRILL_STATS[s.tier][1]

\* a drill that keeps the item it has handed on
Drill_update_keeps_item(g, sid, dt, pick) ==
  LET s == g.structures[sid]
      t1 == s.mining_timer + dt
      mined == t1 >= Drill_speed(s)
      s1 == [s EXCEPT !.mining_timer = IF mined THEN t1 - Drill_speed(s) ELSE t1,
                      !.resource_held_count = IF mined THEN @ + 1 ELSE @,
                      !.output_timer = @ + dt]
      g1 == [g EXCEPT !.structures[sid] = [s1 EXCEPT !.output_timer = 0]]
      out == Drill_try_output_resource(g1, sid, pick)
  IN IF ~s.is_on_patch \/ s.resource_type_held = NoRes THEN g
     ELSE IF s1.resource_held_count > 0 /\ s1.output_timer >= DRILL_OUTPUT_COOLDOWN
     THEN out.game
     ELSE [g EXCEPT !.structures[sid] = s1]

Drill_update(g, sid, dt, pick) ==
  LET s == g.structures[sid]
      t1 == s.mining_timer + dt
      mined == t1 >= Drill_speed(s)
      s1 == [s EXCEPT !.mining_timer = IF mined THEN t1 - Drill_speed(s) ELSE t1,
                      !.resource_held_count = IF mined THEN @ + 1 ELSE @,
                      !.output_timer = @ + dt]
      g1 == [g EXCEPT !.structures[sid] = [s1 EXCEPT !.output_timer = 0]]
      out == Drill_try_output_resource(g1, sid, pick)
  IN IF ~s.is_on_patch \/ s.resource_type_held = NoRes THEN g
     ELSE IF s1.resource_held_count > 0 /\ s1.output_timer >= DRILL_OUTPUT_COOLDOWN
     THEN (IF out.ret THEN [out.game EXCEPT !.structures[sid].resource_held_count = @ - 1] ELSE out.game)
     ELSE [g EXCEPT !.structures[sid] = s1]

Conveyor_transfer_time(s) ==
  IF s.tier \in 1..Len(CONVEYOR_STATS) THEN CONVEYOR_STATS[s.tier][1] ELSE CONVEYOR_STATS[1][1]

\* Conveyor.update with Conveyor.try_push_item
\* a conveyor that starts its next item from 0 after every push
Conveyor_update_restarts(g, sid, dt) ==
  LET s == g.structures[sid]
      progress == s.item_progress + (dt * PROGRESS_ONE) \div Conveyor_transfer_time(s)
      push == IF s.item_count <= 0 \/ s.item_type = NoRes THEN [game |-> g, ret |-> FALSE]
              ELSE try_accept_item(g, get_neighbor(g, s, s.orientation), s.item_type)
  IN IF ~(s.item_count > 0 /\ Conveyor_transfer_time(s) > 0) THEN g
     ELSE IF progress < PROGRESS_ONE THEN [g EXCEPT !.structures[sid].item_progress = progress]
     ELSE IF ~push.ret THEN [g EXCEPT !.structures[sid].item_progress = PROGRESS_ONE]
     ELSE [push.game EXCEPT !.structures[sid] =
             IF s.item_count - 1 > 0
             THEN [s EXCEPT !.item_count = @ - 1, !.item_progress = 0]
             ELSE [s EXCEPT !.item_count = @ - 1, !.item_progress = 0, !.item_type = NoRes]]

\* a conveyor that keeps the kind of the item it has handed on
Conveyor_update_keeps_kind(g, sid, dt) ==
  LET s == g.structures[sid]
      progress == s.item_progress + (dt * PROGRESS_ONE) \div Conveyor_transfer_time(s)
      push == IF s.item_count <= 0 \/ s.item_type = NoRes THEN [game |-> g, ret |-> FALSE]
              ELSE try_accept_item(g, get_neighbor(g, s, s.orientation), s.item_type)
  IN IF ~(s.item_count > 0 /\ Conveyor_transfer_time(s) > 0) THEN g
     ELSE IF progress < PROGRESS_ONE THEN [g EXCEPT !.structures[sid].item_progress = progress]
     ELSE IF ~push.ret THEN [g EXCEPT !.structures[sid].item_progress = PROGRESS_ONE]
     ELSE [push.game EXCEPT !.structures[sid] =
             IF s.item_count - 1 > 0
             THEN [s EXCEPT !.item_count = @ - 1, !.item_progress = Max(0, progress - PROGRESS_ONE)]
             ELSE [s EXCEPT !.item_count = @ - 1, !.item_progress = 0]]

Conveyor_update(g, sid, dt) ==
  LET s == g.structures[sid]
      progress == s.item_progress + (dt * PROGRESS_ONE) \div Conveyor_transfer_time(s)
      push == IF s.item_count <= 0 \/ s.item_type = NoRes THEN [game |-> g, ret |-> FALSE]
              ELSE try_accept_item(g, get_neighbor(g, s, s.orientation), s.item_type)
  IN IF ~(s.item_count > 0 /\ Conveyor_transfer_time(s) > 0) THEN g
     ELSE IF progress < PROGRESS_ONE THEN [g EXCEPT !.structures[sid].item_progress = progress]
     ELSE IF ~push.ret THEN [g EXCEPT !.structures[sid].item_progress = PROGRESS_ONE]
     ELSE [push.game EXCEPT !.structures[sid] =
             IF s.item_count - 1 > 0
             THEN [s EXCEPT !.item_count = @ - 1, !.item_progress = Max(0, progress - PROGRESS_ONE)]
             ELSE [s EXCEPT !.item_count = @ - 1, !.item_progress = 0, !.item_type = NoRes]]

\* range, damage and fire_rate of a turret, as update_stats left them
Turret_range(s) == TURRET_STATS[s.tier][1] * PX
Turret_damage(s) == TURRET_STATS[s.tier][2] * HP
Turret_fire_rate(s) == TURRET_STATS[s.tier][3]

\* Turret.find_target: the index of the closest living enemy in range, the
\* first one among equally close ones; 0 when there is none
Turret_find_target(s, enemies) ==
  LET c == Center(s)
      d_sq(i) == distance_sq(c[1], c[2], enemies[i].world_x, enemies[i].world_y)
      ok(i) == ~enemies[i].destroyed /\ d_sq(i) <= Turret_range(s) * Turret_range(s)
      cand == { i \in 1..Len(enemies) : ok(i) }
  IN IF cand = {} THEN 0
     ELSE CHOOSE i \in cand : \A j \in cand : d_sq(i) < d_sq(j) \/ (d_sq(i) = d_sq(j) /\ i <= j)

\* a turret that fires without ammunition and without power
Turret_update_dry(g, sid, dt) ==
  LET s == g.structures[sid]
      c == Center(s)
      fire_timer == s.fire_timer + dt
      old == IF s.target_id # NoEnemy THEN IndexOf(g.enemies, s.target_id) ELSE 0
      target_lost ==
        \/ old = 0
        \/ g.enemies[old].destroyed
        \/ distance_sq(c[1], c[2], g.enemies[old].world_x, g.enemies[old].world_y) > Turret_range(s) * Turret_range(s)
      ti == IF target_lost THEN Turret_find_target(s, g.enemies) ELSE old
      target_id == IF ti = 0 THEN NoEnemy ELSE g.enemies[ti].network_id
      ready == fire_timer >= Turret_fire_rate(s)
      has_res == TRUE
      s1 == [s EXCEPT !.fire_timer = fire_timer, !.target_id = target_id]
  IN IF ti # 0 /\ ready /\ has_res
     THEN [g EXCEPT !.structures[sid] =
                      [s1 EXCEPT !.fire_timer = 0,
                                 !.ammo = IF s.tier < 3 THEN @ - TURRET_AMMO_CONSUMPTION ELSE @],
                    !.next_projectile_id = @ + 1,
                    !.projectiles = Append(@, Projectile(c[1], c[2], g.enemies[ti], PROJECTILE_SPEED,
                                                         Turret_damage(s), g.next_projectile_id + 1))]
     ELSE [g EXCEPT !.structures[sid] = s1]

Turret_update(g, sid, dt) ==
  LET s == g.structures[sid]
      c == Center(s)
      fire_timer == s.fire_timer + dt
      old == IF s.target_id # NoEnemy THEN IndexOf(g.enemies, s.target_id) ELSE 0
      target_lost ==
        \/ old = 0
        \/ g.enemies[old].destroyed
        \/ distance_sq(c[1], c[2], g.enemies[old].world_x, g.enemies[old].world_y) > Turret_range(s) * Turret_range(s)
      ti == IF target_lost THEN Turret_find_target(s, g.enemies) ELSE old
      target_id == IF ti = 0 THEN NoEnemy ELSE g.enemies[ti].network_id
      ready == fire_timer >= Turret_fire_rate(s)
      has_res == IF s.tier < 3 THEN s.ammo >= TURRET_AMMO_CONSUMPTION ELSE s.is_powered
      s1 == [s EXCEPT !.fire_timer = fire_timer, !.target_id = target_id]
  IN IF ti # 0 /\ ready /\ has_res
     THEN [g EXCEPT !.structures[sid] =
                      [s1 EXCEPT !.fire_timer = 0,
                                 !.ammo = IF s.tier < 3 THEN @ - TURRET_AMMO_CONSUMPTION ELSE @],
                    !.next_projectile_id = @ + 1,
                    !.projectiles = Append(@, Projectile(c[1], c[2], g.enemies[ti], PROJECTILE_SPEED,
                                                         Turret_damage(s), g.next_projectile_id + 1))]
     ELSE [g EXCEPT !.structures[sid] = s1]

\* a generator that is a source without coal in its buffer
CoalGenerator_update_without_coal(g, sid, dt) ==
  LET s == g.structures[sid]
      timer == s.consume_timer + dt
  IN [g EXCEPT !.structures[sid] =
        IF s.coal_buffer > 0
        THEN IF timer >= COALGENERATOR_CONSUMPTION_RATE
             THEN [s EXCEPT !.is_generating = TRUE, !.consume_timer = timer - COALGENERATOR_CONSUMPTION_RATE,
                            !.coal_buffer = @ - 1]
             ELSE [s EXCEPT !.is_generating = TRUE, !.consume_timer = timer]
        ELSE [s EXCEPT !.is_generating = TRUE, !.consume_timer = 0]]

\* a generator that burns its coal without reporting itself as a source
CoalGenerator_update_unreported(g, sid, dt) ==
  LET s == g.structures[sid]
      timer == s.consume_timer + dt
  IN [g EXCEPT !.structures[sid] =
        IF s.coal_buffer > 0
        THEN IF timer >= COALGENERATOR_CONSUMPTION_RATE
             THEN [s EXCEPT !.consume_timer = timer - COALGENERATOR_CONSUMPTION_RATE, !.coal_buffer = @ - 1]
             ELSE [s EXCEPT !.consume_timer = timer]
        ELSE [s EXCEPT !.is_generating = FALSE, !.consume_timer = 0]]

CoalGenerator_update(g, sid, dt) ==
  LET s == g.structures[sid]
      timer == s.consume_timer + dt
  IN [g EXCEPT !.structures[sid] =
        IF s.coal_buffer > 0
        THEN IF timer >= COALGENERATOR_CONSUMPTION_RATE
             THEN [s EXCEPT !.is_generating = TRUE, !.consume_timer = timer - COALGENERATOR_CONSUMPTION_RATE,
                            !.coal_buffer = @ - 1]
             ELSE [s EXCEPT !.is_generating = TRUE, !.consume_timer = timer]
        ELSE [s EXCEPT !.is_generating = FALSE, !.consume_timer = 0]]

Battery_update(g, sid) ==
  [g EXCEPT !.structures[sid].charge = Max(0, Min(@, BATTERY_CAPACITY * MS))]

\* Reconstructor.update; pick selects the target of random.choice
Reconstructor_update(g, sid, dt, pick) ==
  LET s == g.structures[sid]
      c == Center(s)
      timer == s.repair_timer + dt
      heal_amount == (RECONSTRUCTOR_REPAIR_RATE * timer * HP) \div MS
      radius_grid == (RECONSTRUCTOR_REPAIR_RADIUS \div TILE_SIZE) + 2
      r == RECONSTRUCTOR_REPAIR_RADIUS * PX
      span == 2 * radius_grid + 1
      \* the tiles in the order of the two nested loops
      tiles == [k \in 1..(span * span) |-> << s.grid_x - radius_grid + (k - 1) \div span,
                                              s.grid_y - radius_grid + ((k - 1) % span) >>]
      hurt(cell) ==
        LET occ == get_structure_at(g, cell[1], cell[2])
        IN /\ occ # None /\ IsRef(occ) /\ occ.id # sid
           /\ g.structures[occ.id].hp < g.structures[occ.id].max_hp
           /\ distance_sq(c[1], c[2], Center(g.structures[occ.id])[1], Center(g.structures[occ.id])[2]) <= r * r
      targets == SelectSeq(tiles, hurt)
      tid == get_structure_at(g, targets[(pick % Len(targets)) + 1][1], targets[(pick % Len(targets)) + 1][2]).id
  IN IF ~s.is_powered THEN [g EXCEPT !.structures[sid].repair_timer = 0]
     ELSE IF timer < RECONSTRUCTOR_CHECK_INTERVAL THEN [g EXCEPT !.structures[sid].repair_timer = timer]
     ELSE IF targets = << >> THEN [g EXCEPT !.structures[sid].repair_timer = 0]
     ELSE [g EXCEPT !.structures[sid].repair_timer = 0,
                    !.structures[tid].hp = Min(g.structures[tid].max_hp, @ + heal_amount)]

\* struct.update(self), by class
Structure_update(g, sid, dt, pick) ==
  LET b_type == g.structures[sid].building_type
  IN CASE b_type = BUILDING_DRILL -> Drill_update(g, sid, dt, pick)
       [] b_type = BUILDING_CONVEYOR -> Conveyor_update(g, sid, dt)
       [] b_type = BUILDING_TURRET -> Turret_update(g, sid, dt)
       [] b_type = BUILDING_COALGENERATOR -> CoalGenerator_update(g, sid, dt)
       [] b_type = BUILDING_BATTERY -> Battery_update(g, sid)
       [] b_type = BUILDING_RECONSTRUCTOR -> Reconstructor_update(g, sid, dt, pick)
       [] OTHER -> g

\* a Core that takes damage after the game is over
take_damage_after_the_end(g, sid, amount) ==
  LET s == g.structures[sid]
  IN IF s.hp - amount <= 0
     THEN [game |-> [g EXCEPT !.structures[sid].hp = 0, !.structures[sid].destroyed = TRUE], ret |-> TRUE]
     ELSE [game |-> [g EXCEPT !.structures[sid].hp = @ - amount], ret |-> FALSE]

\* Structure.take_damage on the structure sid: [game, ret]
take_damage(g, sid, amount) ==
  LET s == g.structures[sid]
  IN IF s.building_type = BUILDING_CORE /\ g.game_over THEN [game |-> g, ret |-> FALSE]
     ELSE IF s.hp - amount <= 0
     THEN [game |-> [g EXCEPT !.structures[sid].hp = 0, !.structures[sid].destroyed = TRUE], ret |-> TRUE]
     ELSE [game |-> [g EXCEPT !.structures[sid].hp = @ - amount], ret |-> FALSE]

\* (TILE_SIZE * 0.8), the reach of an enemy, in position units
EnemyAttackRange == (8 * TILE_SIZE * PX) \div 10

AttackPriority(b_type) ==
  CASE b_type = BUILDING_CORE -> 10
    [] b_type = BUILDING_TURRET -> 8
    [] b_type = BUILDING_RECONSTRUCTOR -> 7
    [] b_type \in {BUILDING_COALGENERATOR, BUILDING_BATTERY, BUILDING_DRILL} -> 5
    [] b_type = BUILDING_WALL -> 4
    [] b_type = BUILDING_POWERPOLE -> 2
    [] b_type = BUILDING_CONVEYOR -> 1
    [] OTHER -> 0

\* Enemy.find_attack_target: the id of the structure of highest priority in
\* reach, the first one in the order of the scan; NoStruct when there is none
find_attack_target(g, e) ==
  LET cell == world_to_grid(e.world_x, e.world_y)
      tiles == [k \in 1..9 |-> << cell[1] - 1 + (k - 1) \div 3, cell[2] - 1 + ((k - 1) % 3) >>]
      occ(k) == get_structure_at(g, tiles[k][1], tiles[k][2])
      possible == { k \in 1..9 :
                      /\ occ(k) # None /\ IsRef(occ(k))
                      /\ distance_sq(e.world_x, e.world_y, Center(g.structures[occ(k).id])[1],
                                     Center(g.structures[occ(k).id])[2]) < EnemyAttackRange * EnemyAttackRange
                      /\ AttackPriority(occ(k).id[3]) > 0 }
      prio(k) == AttackPriority(occ(k).id[3])
  IN IF possible = {} THEN NoStruct
     ELSE occ(CHOOSE k \in possible : \A j \in possible : prio(k) > prio(j) \/ (prio(k) = prio(j) /\ k <= j)).id

\* Enemy.update for the i-th enemy once its attack target is settled: e1 is
\* the enemy with the target it holds now
Enemy_act(g, i, dt, e1) ==
  LET target == e1.current_attack_target_id
      tc == Center(g.structures[target])
      in_reach == distance_sq(e1.world_x, e1.world_y, tc[1], tc[2]) <= EnemyAttackRange * EnemyAttackRange
      hit == take_damage(g, target, e1.damage)
      \* the walk toward target_core_coords
      dx == e1.target_core_coords[1] - e1.world_x
      dy == e1.target_core_coords[2] - e1.world_y
      dist == Max(1, ISqrt(dx * dx + dy * dy))
      move_x == Quot(dx * e1.speed * dt, dist * MS)
      move_y == Quot(dy * e1.speed * dt, dist * MS)
      check == world_to_grid(e1.world_x + Quot(move_x * 3, 2), e1.world_y + Quot(move_y * 3, 2))
      curr == world_to_grid(e1.world_x, e1.world_y)
      walk(blocking) ==
        IF check # curr /\ blocking # None /\ IsRef(blocking)
        THEN [e1 EXCEPT !.current_attack_target_id = blocking.id, !.attack_timer = e1.attack_cooldown]
        ELSE [e1 EXCEPT !.current_attack_target_id = NoStruct,
                        !.world_x = Max(0, Min(e1.world_x + move_x, g.map_width_px)),
                        !.world_y = Max(0, Min(e1.world_y + move_y, g.map_height_px))]
  IN IF target # NoStruct /\ in_reach
     THEN IF e1.attack_timer + dt >= e1.attack_cooldown
          THEN [hit.game EXCEPT !.enemies[i] =
                  [e1 EXCEPT !.attack_timer = 0,
                             !.current_attack_target_id = IF hit.ret THEN NoStruct ELSE @]]
          ELSE [g EXCEPT !.enemies[i] = [e1 EXCEPT !.attack_timer = @ + dt]]
     ELSE [g EXCEPT !.enemies[i] = walk(get_structure_at(g, check[1], check[2]))]

\* Enemy.update for the i-th enemy: a target that is gone or destroyed is
\* replaced by what find_attack_target finds
Enemy_update(g, i, dt) ==
  LET e == g.enemies[i]
      held == IF e.current_attack_target_id # NoStruct /\ e.current_attack_target_id \in DOMAIN g.structures
              THEN e.current_attack_target_id ELSE NoStruct
      target_invalid == held = NoStruct \/ g.structures[held].destroyed
  IN IF e.destroyed THEN g
     ELSE Enemy_act(g, i, dt,
                    IF target_invalid
                    THEN [e EXCEPT !.current_attack_target_id = find_attack_target(g, e), !.attack_timer = 0]
                    ELSE e)

\* Enemy.take_damage for the i-th enemy
Enemy_take_damage(g, i, amount) ==
  IF g.enemies[i].hp - amount <= 0
  THEN [g EXCEPT !.enemies[i].hp = 0, !.enemies[i].destroyed = TRUE,
                 !.resources[RES_COPPER] = IF g.network_mode # "client" THEN @ + ENEMY_BOUNTY ELSE @]
  ELSE [g EXCEPT !.enemies[i].hp = @ - amount]

\* Projectile.update for the j-th projectile; the hit radius is
\* TILE_SIZE / 3 + 4 pixels
\* a projectile that flies on through the enemy it hits
Projectile_update_pierces(g, j, dt) ==
  LET p == g.projectiles[j]
      x == p.world_x + Quot(p.vx * dt, MS)
      y == p.world_y + Quot(p.vy * dt, MS)
      lifetime == p.lifetime - dt
      ti == IF p.target_enemy_id # NoEnemy THEN IndexOf(g.enemies, p.target_enemy_id) ELSE 0
      hits == /\ ti # 0 /\ ~g.enemies[ti].destroyed
              /\ 9 * distance_sq(x, y, g.enemies[ti].world_x, g.enemies[ti].world_y)
                   < ((TILE_SIZE + 12) * PX) * ((TILE_SIZE + 12) * PX)
      out == lifetime <= 0 \/ ~(0 <= x /\ x < g.map_width_px /\ 0 <= y /\ y < g.map_height_px)
      p1 == [p EXCEPT !.world_x = x, !.world_y = y, !.lifetime = lifetime]
  IN IF p.destroyed THEN g
     ELSE IF hits THEN [Enemy_take_damage(g, ti, p.damage) EXCEPT !.projectiles[j] = [p1 EXCEPT !.destroyed = out]]
     ELSE [g EXCEPT !.projectiles[j] = [p1 EXCEPT !.destroyed = out]]

\* a projectile that hits its target again after the target is destroyed
Projectile_update_overkill(g, j, dt) ==
  LET p == g.projectiles[j]
      x == p.world_x + Quot(p.vx * dt, MS)
      y == p.world_y + Quot(p.vy * dt, MS)
      lifetime == p.lifetime - dt
      ti == IF p.target_enemy_id # NoEnemy THEN IndexOf(g.enemies, p.target_enemy_id) ELSE 0
      hits == /\ ti # 0
              /\ 9 * distance_sq(x, y, g.enemies[ti].world_x, g.enemies[ti].world_y)
                   < ((TILE_SIZE + 12) * PX) * ((TILE_SIZE + 12) * PX)
      out == lifetime <= 0 \/ ~(0 <= x /\ x < g.map_width_px /\ 0 <= y /\ y < g.map_height_px)
      p1 == [p EXCEPT !.world_x = x, !.world_y = y, !.lifetime = lifetime]
  IN IF p.destroyed THEN g
     ELSE IF hits THEN [Enemy_take_damage(g, ti, p.damage) EXCEPT !.projectiles[j] = [p1 EXCEPT !.destroyed = TRUE]]
     ELSE [g EXCEPT !.projectiles[j] = [p1 EXCEPT !.destroyed = out]]

\* a projectile whose lifetime does not run down
Projectile_update_lasting(g, j, dt) ==
  LET p == g.projectiles[j]
      x == p.world_x + Quot(p.vx * dt, MS)
      y == p.world_y + Quot(p.vy * dt, MS)
      lifetime == p.lifetime
      ti == IF p.target_enemy_id # NoEnemy THEN IndexOf(g.enemies, p.target_enemy_id) ELSE 0
      hits == /\ ti # 0 /\ ~g.enemies[ti].destroyed
              /\ 9 * distance_sq(x, y, g.enemies[ti].world_x, g.enemies[ti].world_y)
                   < ((TILE_SIZE + 12) * PX) * ((TILE_SIZE + 12) * PX)
      out == lifetime <= 0 \/ ~(0 <= x /\ x < g.map_width_px /\ 0 <= y /\ y < g.map_height_px)
      p1 == [p EXCEPT !.world_x = x, !.world_y = y, !.lifetime = lifetime]
  IN IF p.destroyed THEN g
     ELSE IF hits THEN [Enemy_take_damage(g, ti, p.damage) EXCEPT !.projectiles[j] = [p1 EXCEPT !.destroyed = TRUE]]
     ELSE [g EXCEPT !.projectiles[j] = [p1 EXCEPT !.destroyed = out]]

Projectile_update(g, j, dt) ==
  LET p == g.projectiles[j]
      x == p.world_x + Quot(p.vx * dt, MS)
      y == p.world_y + Quot(p.vy * dt, MS)
      lifetime == p.lifetime - dt
      ti == IF p.target_enemy_id # NoEnemy THEN IndexOf(g.enemies, p.target_enemy_id) ELSE 0
      hits == /\ ti # 0 /\ ~g.enemies[ti].destroyed
              /\ 9 * distance_sq(x, y, g.enemies[ti].world_x, g.enemies[ti].world_y)
                   < ((TILE_SIZE + 12) * PX) * ((TILE_SIZE + 12) * PX)
      out == lifetime <= 0 \/ ~(0 <= x /\ x < g.map_width_px /\ 0 <= y /\ y < g.map_height_px)
      p1 == [p EXCEPT !.world_x = x, !.world_y = y, !.lifetime = lifetime]
  IN IF p.destroyed THEN g
     ELSE IF hits THEN [Enemy_take_damage(g, ti, p.damage) EXCEPT !.projectiles[j] = [p1 EXCEPT !.destroyed = TRUE]]
     ELSE [g EXCEPT !.projectiles[j] = [p1 EXCEPT !.destroyed = out]]

\* ------------------------------------------------------------------------
\* The power grid (update_power_grid, host / single player only)
\* ------------------------------------------------------------------------
RECURSIVE SeqSum(_)
SeqSum(seq) == IF seq = << >> THEN 0 ELSE Head(seq) + SeqSum(Tail(seq))

power_consumption(s) ==
  CASE s.building_type = BUILDING_RECONSTRUCTOR -> RECONSTRUCTOR_POWER_CONSUMPTION
    [] s.building_type = BUILDING_TURRET /\ s.tier = 3 -> TURRET_T3_POWER_CONSUMPTION
    [] OTHER -> 0

\* the box of tiles the search scans, without the distance test
within_power_radius_box(a, b) ==
  /\ Max(a.grid_x - b.grid_x, b.grid_x - a.grid_x) <= (POWER_RADIUS \div TILE_SIZE) + 1
  /\ Max(a.grid_y - b.grid_y, b.grid_y - a.grid_y) <= (POWER_RADIUS \div TILE_SIZE) + 1

\* distance_sq(centres) <= POWER_RADIUS ** 2
within_power_radius(a, b) ==
  distance_sq(Center(a)[1], Center(a)[2], Center(b)[1], Center(b)[2]) <= (POWER_RADIUS * PX) * (POWER_RADIUS * PX)

\* "1. Reset Status on all potential nodes and consumers"
power_reset(g) ==
  [g EXCEPT !.structures =
     [sid \in DOMAIN @ |->
        LET s == @[sid]
            s1 == IF InSeq(g.power_nodes, sid)
                  THEN IF is_power_storage(s)
                       THEN [s EXCEPT !.is_on_grid = FALSE, !.connected_nodes_coords = << >>,
                                      !.is_charging = FALSE, !.is_discharging = FALSE]
                       ELSE [s EXCEPT !.is_on_grid = FALSE, !.connected_nodes_coords = << >>]
                  ELSE s
        IN IF InSeq(g.power_consumers, sid)
           THEN [s1 EXCEPT !.is_powered = FALSE, !.power_source_coords = NoCoords]
           ELSE s1]]

\* the ids of the power nodes around node that the search has not visited
\* and that are within POWER_RADIUS, in the order of the scan of the tiles
power_neighbor_ids(g, found) ==
  [k \in 1..Len(found) |-> get_structure_at(g, found[k][1], found[k][2]).id]

power_neighbors(g, node, visited_in_bfs) ==
  LET radius_grid_search == (POWER_RADIUS \div TILE_SIZE) + 1
      span == 2 * radius_grid_search + 1
      is_neighbor(cell) ==
        LET occ == get_structure_at(g, cell[1], cell[2])
        IN /\ cell # <<node.grid_x, node.grid_y>>
           /\ occ # None /\ IsRef(occ)
           /\ is_power_node(g.structures[occ.id])
           /\ occ.id \notin visited_in_bfs
           /\ within_power_radius(node, g.structures[occ.id])
  IN power_neighbor_ids(g,
       SelectSeq([k \in 1..(span * span) |-> << node.grid_x - radius_grid_search + (k - 1) \div span,
                                                node.grid_y - radius_grid_search + ((k - 1) % span) >>],
                 is_neighbor))

\* the links the node cur and its found neighbours note of each other:
\* connected_nodes_coords gets the centres it does not hold already
power_link(g, cur, ids) ==
  [g EXCEPT !.structures =
     [sid \in DOMAIN @ |->
        IF sid = cur
        THEN [@[sid] EXCEPT !.is_on_grid = TRUE,
                            !.connected_nodes_coords =
                               @ \o SelectSeq([k \in 1..Len(ids) |-> Center(g.structures[ids[k]])],
                                              LAMBDA c : ~InSeq(g.structures[cur].connected_nodes_coords, c))]
        ELSE IF InSeq(ids, sid)
        THEN [@[sid] EXCEPT !.connected_nodes_coords = AppendNew(@, Center(g.structures[cur]))]
        ELSE @[sid]]]

\* the breadth-first search from one seed: queue holds <<node id, depth>>
RECURSIVE power_bfs(_, _, _, _)
power_expand(g, queue, visited_in_bfs, current_network_nodes, cur, depth, ids) ==
    \* the search goes on from the world, the queue and the sets as values
    CHOOSE found \in { power_bfs(at[1], at[2], at[3], at[4]) :
                         at \in {<< power_link(g, cur, ids),
                                    Tail(queue) \o [k \in 1..Len(ids) |-> <<ids[k], depth + 1>>],
                                    visited_in_bfs \cup {ids[k] : k \in 1..Len(ids)},
                                    Append(current_network_nodes, cur) >>} } : TRUE

power_visit(g, queue, visited_in_bfs, current_network_nodes, cur, depth) ==
  IF depth >= POWER_SEARCH_DEPTH_LIMIT
  THEN power_bfs([g EXCEPT !.structures[cur].is_on_grid = TRUE], Tail(queue), visited_in_bfs,
                 Append(current_network_nodes, cur))
  ELSE power_expand(g, queue, visited_in_bfs, current_network_nodes, cur, depth,
                    power_neighbors(g, g.structures[cur], visited_in_bfs))

power_bfs(g, queue, visited_in_bfs, current_network_nodes) ==
  IF queue = << >> THEN [game |-> g, nodes |-> current_network_nodes]
  ELSE power_visit(g, queue, visited_in_bfs, current_network_nodes, Head(queue)[1], Head(queue)[2])

\* "2. Network Discovery using BFS from potential sources": [game, networks]
RECURSIVE power_discover(_, _, _, _)
power_found(potential_seeds, processed_nodes, all_networks, found) ==
  power_discover(found.game, Tail(potential_seeds),
                 processed_nodes \cup {found.nodes[k] : k \in 1..Len(found.nodes)},
                 Append(all_networks, found.nodes))

power_discover(g, potential_seeds, processed_nodes, all_networks) ==
  IF potential_seeds = << >> THEN [game |-> g, networks |-> all_networks]
  ELSE IF Head(potential_seeds) \in processed_nodes
  THEN power_discover(g, Tail(potential_seeds), processed_nodes, all_networks)
  ELSE power_found(potential_seeds, processed_nodes, all_networks,
                   power_bfs(g, << <<Head(potential_seeds), 0>> >>, {Head(potential_seeds)}, << >>))

\* find_closest_node_in_set: the id of a node of the set closest to the
\* consumer and within POWER_RADIUS, NoStruct when there is none.  The set
\* is iterated in an unspecified order and the first of several equally
\* close nodes wins: pick selects it
find_closest_node_in_set(g, consumer, node_set, pick) ==
  LET d_sq(k) == distance_sq(Center(consumer)[1], Center(consumer)[2],
                             Center(g.structures[node_set[k]])[1], Center(g.structures[node_set[k]])[2])
      near == { k \in 1..Len(node_set) : within_power_radius(consumer, g.structures[node_set[k]]) }
      closest == SelectSeq([k \in 1..Len(node_set) |-> k],
                           LAMBDA k : k \in near /\ \A j \in near : d_sq(k) <= d_sq(j))
  IN IF near = {} THEN NoStruct ELSE node_set[closest[(pick % Len(closest)) + 1]]

\* "3. Calculate Balance & Set Status Per Network" to "5/6. Set Status &
\* Apply Charge/Discharge Amounts", for one network
battery_can_give(s, delta_time) == Min(s.charge, BATTERY_DISCHARGE_RATE * delta_time)

battery_can_take(s, delta_time) == Min(BATTERY_CAPACITY * MS - s.charge, BATTERY_CHARGE_RATE * delta_time)

\* "Distribute discharge/charge among batteries", for one battery s
battery_share(s, delta_time, actual_discharge_amount, total_available_discharge_amount, actual_charge_amount, total_available_charge_room) ==
  LET provide == IF actual_discharge_amount > 0 /\ total_available_discharge_amount > 0
                 THEN Quot(battery_can_give(s, delta_time) * actual_discharge_amount,
                           total_available_discharge_amount)
                 ELSE 0
      room == Min(BATTERY_CAPACITY * MS - (s.charge - provide), BATTERY_CHARGE_RATE * delta_time)
      absorb == IF actual_charge_amount > 0 /\ total_available_charge_room > 0
                THEN Quot(room * actual_charge_amount, total_available_charge_room)
                ELSE 0
  IN [s EXCEPT !.charge = @ - provide + absorb,
               !.is_discharging = IF provide > 0 THEN TRUE ELSE @,
               !.is_charging = IF absorb > 0 THEN TRUE ELSE @]

\* the balance of one network and its effect on consumers and batteries
power_distribute(g, network_nodes_set, delta_time, pick, consumers_in_this_network, batteries_in_network, total_generation_rate, total_consumption_rate, max_possible_discharge_rate, total_available_discharge_amount, total_available_charge_room) ==
  LET is_power_sufficient == total_generation_rate + max_possible_discharge_rate >= total_consumption_rate
      power_balance == total_generation_rate - total_consumption_rate
      actual_discharge_amount ==
        IF is_power_sufficient /\ power_balance < 0
        THEN Min((-power_balance) * delta_time, total_available_discharge_amount) ELSE 0
      actual_charge_amount ==
        IF is_power_sufficient
        THEN (IF power_balance > 0 THEN Min(power_balance * delta_time, total_available_charge_room) ELSE 0)
        ELSE Min(total_generation_rate * delta_time, total_available_charge_room)
  IN [g EXCEPT !.structures =
        [sid \in DOMAIN @ |->
           IF InSeq(consumers_in_this_network, sid)
           THEN [@[sid] EXCEPT !.is_powered = is_power_sufficient,
                               !.power_source_coords =
                                  IF is_power_sufficient
                                  THEN Center(g.structures[find_closest_node_in_set(g, g.structures[sid],
                                                                                    network_nodes_set, pick)])
                                  ELSE NoCoords]
           ELSE IF InSeq(batteries_in_network, sid)
           THEN battery_share(@[sid], delta_time, actual_discharge_amount, total_available_discharge_amount,
                              actual_charge_amount, total_available_charge_room)
           ELSE @[sid]]]

\* the totals of one network: generation, consumption and battery capacity
power_totals(g, network_nodes_set, delta_time, pick, consumers_in_this_network, batteries_in_network) ==
  power_distribute(g, network_nodes_set, delta_time, pick, consumers_in_this_network, batteries_in_network,
    SeqSum([k \in 1..Len(network_nodes_set) |->
              IF is_power_source(g.structures[network_nodes_set[k]]) THEN COALGENERATOR_POWER_OUTPUT ELSE 0]),
    SeqSum([k \in 1..Len(consumers_in_this_network) |->
              power_consumption(g.structures[consumers_in_this_network[k]])]),
    SeqSum([k \in 1..Len(batteries_in_network) |->
              IF g.structures[batteries_in_network[k]].charge > 0 THEN BATTERY_DISCHARGE_RATE ELSE 0]),
    SeqSum([k \in 1..Len(batteries_in_network) |->
              battery_can_give(g.structures[batteries_in_network[k]], delta_time)]),
    SeqSum([k \in 1..Len(batteries_in_network) |->
              battery_can_take(g.structures[batteries_in_network[k]], delta_time)]))

\* the loop body of "for network_nodes_set in all_networks"
power_settle(g, network_nodes_set, delta_time, pick) ==
  power_totals(g, network_nodes_set, delta_time, pick,
    SelectSeq(g.power_consumers,
              LAMBDA cid : find_closest_node_in_set(g, g.structures[cid], network_nodes_set, pick) # NoStruct),
    SelectSeq(network_nodes_set, LAMBDA sid : is_power_storage(g.structures[sid])))

RECURSIVE power_settle_all(_, _, _, _)
power_settle_all(g, all_networks, delta_time, pick) ==
  IF all_networks = << >> THEN g
  ELSE power_settle_all(power_settle(g, Head(all_networks), delta_time, pick), Tail(all_networks), delta_time, pick)

\* Game.update_power_grid with self.dt = dt
power_networks(g) ==
  power_discover(g,
                 SelectSeq(g.power_nodes,
                           LAMBDA sid : is_power_source(g.structures[sid])
                                        \/ (is_power_storage(g.structures[sid]) /\ g.structures[sid].charge > 0)),
                 {}, << >>)

power_balance_networks(found, dt, pick) == power_settle_all(found.game, found.networks, dt, pick)

update_power_grid(g, dt, pick) ==
  IF g.network_mode = "client" THEN g
  ELSE power_balance_networks(power_networks(power_reset(g)), dt, pick)

\* ------------------------------------------------------------------------
\* One frame of the host / single player world: Game.update
\* The random draws of a frame are the record rnd:
\*   pick    the choice among shuffled neighbours and among repair targets
\*   edge    the edge where an enemy appears: "top", "left" or "right"
\*   u       the place along that edge, in percent of its length
\*   jitter  random.uniform(0.7, 1.3), in thousandths
\* ------------------------------------------------------------------------
spawn_enemy(g, rnd) ==
  LET margin == (3 * TILE_SIZE * PX) \div 2
      along(len) == margin + ((len - 2 * margin) * rnd.u) \div 100
      sx == CASE rnd.edge = "top" -> along(g.map_width_px)
              [] rnd.edge = "left" -> -margin
              [] OTHER -> g.map_width_px + margin
      sy == IF rnd.edge = "top" THEN -margin ELSE along(g.map_height_px)
      new_enemy == Enemy(sx, sy, Center(CoreObj(g)), g.current_enemy_hp, ENEMY_SPEED, ENEMY_DAMAGE * HP,
                         ENEMY_ATTACK_COOLDOWN, g.next_enemy_id + 1)
  IN IF g.network_mode = "client" \/ g.core = None THEN g
     ELSE [g EXCEPT !.next_enemy_id = @ + 1, !.enemies = Append(@, new_enemy)]

RECURSIVE update_structures(_, _, _, _)
update_structures(g, ids, dt, pick) ==
  IF ids = << >> THEN g
  ELSE update_structures(Structure_update(g, Head(ids), dt, pick), Tail(ids), dt, pick)

RECURSIVE update_enemies(_, _, _)
update_enemies(g, i, dt) ==
  IF i > Len(g.enemies) THEN g ELSE update_enemies(Enemy_update(g, i, dt), i + 1, dt)

RECURSIVE update_projectiles(_, _, _)
update_projectiles(g, j, dt) ==
  IF j > Len(g.projectiles) THEN g ELSE update_projectiles(Projectile_update(g, j, dt), j + 1, dt)

RECURSIVE remove_structures(_, _)
remove_structures(g, ids) ==
  IF ids = << >> THEN g
  ELSE remove_structures(IF Head(ids) \in DOMAIN g.structures
                         THEN remove_structure_from_game(g, g.structures[Head(ids)]) ELSE g,
                         Tail(ids))

\* a cleanup that leaves the destroyed structures where they are
cleanup_destroyed_keeps_structures(g) ==
  [g EXCEPT !.enemies = SelectSeq(@, LAMBDA e : ~e.destroyed),
            !.projectiles = SelectSeq(@, LAMBDA p : ~p.destroyed)]

\* "Cleanup Destroyed Entities"
cleanup_destroyed(g) ==
  LET destroyed_structure_ids == SelectSeq(g.order, LAMBDA sid : g.structures[sid].destroyed)
      g1 == remove_structures(g, destroyed_structure_ids)
  IN [g1 EXCEPT !.enemies = SelectSeq(@, LAMBDA e : ~e.destroyed),
                !.projectiles = SelectSeq(@, LAMBDA p : ~p.destroyed)]

\* a wave that goes on counting the enemies of the wave before
wave_management_keeps_count(g, dt, rnd) ==
  LET g1 == [g EXCEPT !.wave_timer = @ - dt]
      starts == ~g1.in_wave /\ g1.wave_timer <= 0 /\ g1.wave_number < g1.max_waves
      g2 == IF starts
            THEN [g1 EXCEPT !.in_wave = TRUE, !.wave_number = @ + 1,
                            !.enemies_to_spawn_this_wave = 10 + (g1.wave_number + 1) * 5,
                            !.current_enemy_hp = (ENEMY_START_HP + g1.wave_number * ENEMY_HP_INCREASE_PER_WAVE) * HP,
                            !.wave_timer = WAVE_DURATION * MS, !.enemy_spawn_timer = 0]
            ELSE g1
      spawning == g2.in_wave /\ g2.enemies_spawned_this_wave < g2.enemies_to_spawn_this_wave
      base_interval == IF g2.enemies_to_spawn_this_wave > 0
                       THEN (WAVE_DURATION * MS * rnd.jitter) \div (g2.enemies_to_spawn_this_wave * 1000)
                       ELSE 3 * rnd.jitter
      g3 == IF spawning
            THEN IF g2.enemy_spawn_timer - dt <= 0
                 THEN [spawn_enemy(g2, rnd) EXCEPT !.enemies_spawned_this_wave = @ + 1,
                                                   !.enemy_spawn_timer = Max(100, base_interval)]
                 ELSE [g2 EXCEPT !.enemy_spawn_timer = @ - dt]
            ELSE g2
      wave_ended_naturally == g3.in_wave /\ g3.wave_timer <= 0
      wave_cleared == g3.in_wave /\ g3.enemies_spawned_this_wave >= g3.enemies_to_spawn_this_wave /\ g3.enemies = << >>
  IN IF g.game_over \/ g.game_won THEN g
     ELSE IF wave_ended_naturally \/ wave_cleared
     THEN [g3 EXCEPT !.in_wave = FALSE, !.wave_timer = WAVE_COOLDOWN * MS]
     ELSE g3

\* a wave that only its timer ends
wave_management_by_timer(g, dt, rnd) ==
  LET g1 == [g EXCEPT !.wave_timer = @ - dt]
      starts == ~g1.in_wave /\ g1.wave_timer <= 0 /\ g1.wave_number < g1.max_waves
      g2 == IF starts
            THEN [g1 EXCEPT !.in_wave = TRUE, !.wave_number = @ + 1,
                            !.enemies_to_spawn_this_wave = 10 + (g1.wave_number + 1) * 5,
                            !.enemies_spawned_this_wave = 0,
                            !.current_enemy_hp = (ENEMY_START_HP + g1.wave_number * ENEMY_HP_INCREASE_PER_WAVE) * HP,
                            !.wave_timer = WAVE_DURATION * MS, !.enemy_spawn_timer = 0]
            ELSE g1
      spawning == g2.in_wave /\ g2.enemies_spawned_this_wave < g2.enemies_to_spawn_this_wave
      base_interval == IF g2.enemies_to_spawn_this_wave > 0
                       THEN (WAVE_DURATION * MS * rnd.jitter) \div (g2.enemies_to_spawn_this_wave * 1000)
                       ELSE 3 * rnd.jitter
      g3 == IF spawning
            THEN IF g2.enemy_spawn_timer - dt <= 0
                 THEN [spawn_enemy(g2, rnd) EXCEPT !.enemies_spawned_this_wave = @ + 1,
                                                   !.enemy_spawn_timer = Max(100, base_interval)]
                 ELSE [g2 EXCEPT !.enemy_spawn_timer = @ - dt]
            ELSE g2
      wave_ended_naturally == g3.in_wave /\ g3.wave_timer <= 0
      wave_cleared == g3.in_wave /\ g3.enemies_spawned_this_wave >= g3.enemies_to_spawn_this_wave /\ g3.enemies = << >>
  IN IF g.game_over \/ g.game_won THEN g
     ELSE IF wave_ended_naturally
     THEN [g3 EXCEPT !.in_wave = FALSE, !.wave_timer = WAVE_COOLDOWN * MS]
     ELSE g3

\* waves that go on after the end of the game
wave_management_after_the_end(g, dt, rnd) ==
  LET g1 == [g EXCEPT !.wave_timer = @ - dt]
      starts == ~g1.in_wave /\ g1.wave_timer <= 0 /\ g1.wave_number < g1.max_waves
      g2 == IF starts
            THEN [g1 EXCEPT !.in_wave = TRUE, !.wave_number = @ + 1,
                            !.enemies_to_spawn_this_wave = 10 + (g1.wave_number + 1) * 5,
                            !.enemies_spawned_this_wave = 0,
                            !.current_enemy_hp = (ENEMY_START_HP + g1.wave_number * ENEMY_HP_INCREASE_PER_WAVE) * HP,
                            !.wave_timer = WAVE_DURATION * MS, !.enemy_spawn_timer = 0]
            ELSE g1
      spawning == g2.in_wave /\ g2.enemies_spawned_this_wave < g2.enemies_to_spawn_this_wave
      base_interval == IF g2.enemies_to_spawn_this_wave > 0
                       THEN (WAVE_DURATION * MS * rnd.jitter) \div (g2.enemies_to_spawn_this_wave * 1000)
                       ELSE 3 * rnd.jitter
      g3 == IF spawning
            THEN IF g2.enemy_spawn_timer - dt <= 0
                 THEN [spawn_enemy(g2, rnd) EXCEPT !.enemies_spawned_this_wave = @ + 1,
                                                   !.enemy_spawn_timer = Max(100, base_interval)]
                 ELSE [g2 EXCEPT !.enemy_spawn_timer = @ - dt]
            ELSE g2
      wave_ended_naturally == g3.in_wave /\ g3.wave_timer <= 0
      wave_cleared == g3.in_wave /\ g3.enemies_spawned_this_wave >= g3.enemies_to_spawn_this_wave /\ g3.enemies = << >>
  IN IF wave_ended_naturally \/ wave_cleared
     THEN [g3 EXCEPT !.in_wave = FALSE, !.wave_timer = WAVE_COOLDOWN * MS]
     ELSE g3

\* a wave management whose timer stands still
wave_management_stopped_clock(g, dt, rnd) ==
  LET g1 == g
      starts == ~g1.in_wave /\ g1.wave_timer <= 0 /\ g1.wave_number < g1.max_waves
      g2 == IF starts
            THEN [g1 EXCEPT !.in_wave = TRUE, !.wave_number = @ + 1,
                            !.enemies_to_spawn_this_wave = 10 + (g1.wave_number + 1) * 5,
                            !.enemies_spawned_this_wave = 0,
                            !.current_enemy_hp = (ENEMY_START_HP + g1.wave_number * ENEMY_HP_INCREASE_PER_WAVE) * HP,
                            !.wave_timer = WAVE_DURATION * MS, !.enemy_spawn_timer = 0]
            ELSE g1
      spawning == g2.in_wave /\ g2.enemies_spawned_this_wave < g2.enemies_to_spawn_this_wave
      base_interval == IF g2.enemies_to_spawn_this_wave > 0
                       THEN (WAVE_DURATION * MS * rnd.jitter) \div (g2.enemies_to_spawn_this_wave * 1000)
                       ELSE 3 * rnd.jitter
      g3 == IF spawning
            THEN IF g2.enemy_spawn_timer - dt <= 0
                 THEN [spawn_enemy(g2, rnd) EXCEPT !.enemies_spawned_this_wave = @ + 1,
                                                   !.enemy_spawn_timer = Max(100, base_interval)]
                 ELSE [g2 EXCEPT !.enemy_spawn_timer = @ - dt]
            ELSE g2
      wave_ended_naturally == g3.in_wave /\ g3.wave_timer <= 0
      wave_cleared == g3.in_wave /\ g3.enemies_spawned_this_wave >= g3.enemies_to_spawn_this_wave /\ g3.enemies = << >>
  IN IF g.game_over \/ g.game_won THEN g
     ELSE IF wave_ended_naturally \/ wave_cleared
     THEN [g3 EXCEPT !.in_wave = FALSE, !.wave_timer = WAVE_COOLDOWN * MS]
     ELSE g3

\* "Wave Management"
\* a wave that goes on spawning when its quota is spawned
wave_management_over_quota(g, dt, rnd) ==
  LET g1 == [g EXCEPT !.wave_timer = @ - dt]
      starts == ~g1.in_wave /\ g1.wave_timer <= 0 /\ g1.wave_number < g1.max_waves
      g2 == IF starts
            THEN [g1 EXCEPT !.in_wave = TRUE, !.wave_number = @ + 1,
                            !.enemies_to_spawn_this_wave = 10 + (g1.wave_number + 1) * 5,
                            !.enemies_spawned_this_wave = 0,
                            !.current_enemy_hp = (ENEMY_START_HP + g1.wave_number * ENEMY_HP_INCREASE_PER_WAVE) * HP,
                            !.wave_timer = WAVE_DURATION * MS, !.enemy_spawn_timer = 0]
            ELSE g1
      spawning == g2.in_wave
      base_interval == IF g2.enemies_to_spawn_this_wave > 0
                       THEN (WAVE_DURATION * MS * rnd.jitter) \div (g2.enemies_to_spawn_this_wave * 1000)
                       ELSE 3 * rnd.jitter
      g3 == IF spawning
            THEN IF g2.enemy_spawn_timer - dt <= 0
                 THEN [spawn_enemy(g2, rnd) EXCEPT !.enemies_spawned_this_wave = @ + 1,
                                                   !.enemy_spawn_timer = Max(100, base_interval)]
                 ELSE [g2 EXCEPT !.enemy_spawn_timer = @ - dt]
            ELSE g2
      wave_ended_naturally == g3.in_wave /\ g3.wave_timer <= 0
      wave_cleared == g3.in_wave /\ g3.enemies_spawned_this_wave >= g3.enemies_to_spawn_this_wave /\ g3.enemies = << >>
  IN IF g.game_over \/ g.game_won THEN g
     ELSE IF wave_ended_naturally \/ wave_cleared
     THEN [g3 EXCEPT !.in_wave = FALSE, !.wave_timer = WAVE_COOLDOWN * MS]
     ELSE g3

wave_management(g, dt, rnd) ==
  LET g1 == [g EXCEPT !.wave_timer = @ - dt]
      starts == ~g1.in_wave /\ g1.wave_timer <= 0 /\ g1.wave_number < g1.max_waves
      g2 == IF starts
            THEN [g1 EXCEPT !.in_wave = TRUE, !.wave_number = @ + 1,
                            !.enemies_to_spawn_this_wave = 10 + (g1.wave_number + 1) * 5,
                            !.enemies_spawned_this_wave = 0,
                            !.current_enemy_hp = (ENEMY_START_HP + g1.wave_number * ENEMY_HP_INCREASE_PER_WAVE) * HP,
                            !.wave_timer = WAVE_DURATION * MS, !.enemy_spawn_timer = 0]
            ELSE g1
      spawning == g2.in_wave /\ g2.enemies_spawned_this_wave < g2.enemies_to_spawn_this_wave
      base_interval == IF g2.enemies_to_spawn_this_wave > 0
                       THEN (WAVE_DURATION * MS * rnd.jitter) \div (g2.enemies_to_spawn_this_wave * 1000)
                       ELSE 3 * rnd.jitter
      g3 == IF spawning
            THEN IF g2.enemy_spawn_timer - dt <= 0
                 THEN [spawn_enemy(g2, rnd) EXCEPT !.enemies_spawned_this_wave = @ + 1,
                                                   !.enemy_spawn_timer = Max(100, base_interval)]
                 ELSE [g2 EXCEPT !.enemy_spawn_timer = @ - dt]
            ELSE g2
      wave_ended_naturally == g3.in_wave /\ g3.wave_timer <= 0
      wave_cleared == g3.in_wave /\ g3.enemies_spawned_this_wave >= g3.enemies_to_spawn_this_wave /\ g3.enemies = << >>
  IN IF g.game_over \/ g.game_won THEN g
     ELSE IF wave_ended_naturally \/ wave_cleared
     THEN [g3 EXCEPT !.in_wave = FALSE, !.wave_timer = WAVE_COOLDOWN * MS]
     ELSE g3

\* Game.update for network_mode "host" or "sp", with self.dt = dt
\* "Update Players"
update_players(g, dt) ==
  [g EXCEPT !.players = [pid \in DOMAIN @ |-> Player_update(@[pid], dt, g)]]

\* "Update Structures", "Update Enemies", "Update Projectiles"
update_entities(g, dt, pick) ==
  update_projectiles(update_enemies(update_structures(g, g.order, dt, pick), 1, dt), 1, dt)

\* "Update Power Grid periodically"
power_grid_timer(g, dt, pick) ==
  IF g.power_grid_update_timer + dt >= POWER_NETWORK_STATS_UPDATE_INTERVAL
  THEN update_power_grid([g EXCEPT !.power_grid_update_timer = 0], dt, pick)
  ELSE [g EXCEPT !.power_grid_update_timer = @ + dt]

\* a win declared while enemies are alive
check_win_over_enemies(g) ==
  IF ~g.game_over /\ ~g.game_won /\ g.wave_number >= g.max_waves /\ ~g.in_wave
  THEN [g EXCEPT !.game_won = TRUE]
  ELSE g

\* "Check win condition"
check_win(g) ==
  IF ~g.game_over /\ ~g.game_won /\ g.wave_number >= g.max_waves /\ ~g.in_wave /\ g.enemies = << >>
  THEN [g EXCEPT !.game_won = TRUE]
  ELSE g

\* the end conditions with the win looked at before the loss of the Core
game_end_conditions_win_first(g, core_destroyed_this_frame) ==
  LET won == check_win(g)
  IN IF core_destroyed_this_frame /\ ~won.game_over THEN [won EXCEPT !.game_over = TRUE] ELSE won

\* "Game End Conditions"
game_end_conditions(g, core_destroyed_this_frame) ==
  check_win(IF core_destroyed_this_frame /\ ~g.game_over THEN [g EXCEPT !.game_over = TRUE] ELSE g)

\* "Cleanup Destroyed Entities", "Wave Management" and the end conditions
end_of_frame(g, dt, rnd) ==
  game_end_conditions(wave_management(cleanup_destroyed(g), dt, rnd),
                      \E sid \in DOMAIN g.structures : g.structures[sid].destroyed /\ sid[3] = BUILDING_CORE)

\* Game.update of a host or single player world with self.dt = dt
Game_update(g, dt, rnd) ==
  end_of_frame(power_grid_timer(update_entities(update_players(g, dt), dt, rnd.pick), dt, rnd.pick), dt, rnd)

\* ------------------------------------------------------------------------
\* Full snapshots: get_state / apply_state and get_full_snapshot
\* ------------------------------------------------------------------------
DigitChars == <<"0", "1", "2", "3", "4", "5", "6", "7", "8", "9">>

\* str(n) for n >= 0, as the sequence of its characters
RECURSIVE StrOfInt(_)
StrOfInt(n) == IF n < 10 THEN << DigitChars[n + 1] >> ELSE Append(StrOfInt(n \div 10), DigitChars[(n % 10) + 1])

\* int(chars) for a sequence of digits
RECURSIVE IntOfStr(_)
IntOfStr(chars) ==
  IF chars = << >> THEN 0
  ELSE 10 * IntOfStr(SubSeq(chars, 1, Len(chars) - 1))
         + ((CHOOSE d \in 1..10 : DigitChars[d] = chars[Len(chars)]) - 1)

\* f"{gx},{gy}", the key of a terrain patch in a snapshot
TerrainKey(gx, gy) == StrOfInt(gx) \o <<",">> \o StrOfInt(gy)

\* str_key.split(',') and int() of the first two parts
ParseTerrainKey(str_key) ==
  LET comma == CHOOSE i \in 1..Len(str_key) : str_key[i] = "," /\ \A j \in 1..(i - 1) : str_key[j] # ","
      rest == SubSeq(str_key, comma + 1, Len(str_key))
      stop == IF \E i \in 1..Len(rest) : rest[i] = ","
              THEN (CHOOSE i \in 1..Len(rest) : rest[i] = "," /\ \A j \in 1..(i - 1) : rest[j] # ",") - 1
              ELSE Len(rest)
  IN << IntOfStr(SubSeq(str_key, 1, comma - 1)), IntOfStr(SubSeq(rest, 1, stop)) >>

Player_get_state(p) ==
  [ id |-> p.player_id, x |-> p.world_x, y |-> p.world_y, name |-> p.name, color_idx |-> p.color_index ]

Player_apply_state(p, state_data) ==
  [p EXCEPT !.world_x = state_data.x, !.world_y = state_data.y, !.name = state_data.name,
            !.color_index = state_data.color_idx]

\* Structure.get_state (the turret's angle, a drawing aid, is left out)
Structure_get_state(s) ==
  LET state == [ net_id |-> s.network_id, type |-> s.building_type, gx |-> s.grid_x, gy |-> s.grid_y,
                 hp |-> s.hp, max_hp |-> s.max_hp, tier |-> s.tier,
                 is_powered |-> s.is_powered, is_on_grid |-> s.is_on_grid,
                 connected_nodes_coords |-> s.connected_nodes_coords,
                 power_source_coords |-> s.power_source_coords ]
  IN CASE s.building_type = BUILDING_CONVEYOR ->
            Extend(state, [ orientation |-> s.orientation, item_type |-> s.item_type,
                            item_count |-> s.item_count, item_progress |-> s.item_progress ])
       [] s.building_type = BUILDING_TURRET -> Extend(state, [ ammo |-> s.ammo ])
       [] s.building_type = BUILDING_DRILL ->
            Extend(state, [ res_held |-> s.resource_held_count, res_type |-> s.resource_type_held ])
       [] s.building_type = BUILDING_COALGENERATOR ->
            Extend(state, [ coal_buffer |-> s.coal_buffer, is_generating |-> s.is_generating ])
       [] s.building_type = BUILDING_BATTERY ->
            Extend(state, [ charge |-> s.charge, is_charging |-> s.is_charging, is_discharging |-> s.is_discharging ])
       [] OTHER -> state

\* Structure.apply_state
Structure_apply_state(s, state_data) ==
  LET tier_changed == state_data.tier # s.tier
      s1 == [s EXCEPT !.tier = state_data.tier, !.hp = state_data.hp,
                      !.is_powered = state_data.is_powered, !.is_on_grid = state_data.is_on_grid,
                      !.connected_nodes_coords = state_data.connected_nodes_coords,
                      !.power_source_coords = state_data.power_source_coords]
      s2 == IF tier_changed THEN update_stats(s1) ELSE s1
      s3 == [s2 EXCEPT !.max_hp = state_data.max_hp]
  IN CASE s.building_type = BUILDING_CONVEYOR ->
            [s3 EXCEPT !.orientation = state_data.orientation, !.item_type = state_data.item_type,
                       !.item_count = state_data.item_count, !.item_progress = state_data.item_progress]
       [] s.building_type = BUILDING_TURRET -> [s3 EXCEPT !.ammo = state_data.ammo]
       [] s.building_type = BUILDING_DRILL ->
            [s3 EXCEPT !.resource_held_count = state_data.res_held, !.resource_type_held = state_data.res_type]
       [] s.building_type = BUILDING_COALGENERATOR ->
            [s3 EXCEPT !.coal_buffer = state_data.coal_buffer, !.is_generating = state_data.is_generating]
       [] s.building_type = BUILDING_BATTERY ->
            [s3 EXCEPT !.charge = state_data.charge, !.is_charging = state_data.is_charging,
                       !.is_discharging = state_data.is_discharging]
       [] OTHER -> s3

Enemy_get_state(e) ==
  [ net_id |-> e.network_id, x |-> e.world_x, y |-> e.world_y, hp |-> e.hp, max_hp |-> e.max_hp ]

\* an enemy that moves half of the way to the received position
Enemy_apply_state_smoothed(e, state_data) ==
  [e EXCEPT !.world_x = (@ + state_data.x) \div 2, !.world_y = (@ + state_data.y) \div 2,
            !.hp = state_data.hp, !.max_hp = state_data.max_hp]

Enemy_apply_state(e, state_data) ==
  [e EXCEPT !.world_x = state_data.x, !.world_y = state_data.y, !.hp = state_data.hp, !.max_hp = state_data.max_hp]

Projectile_get_state(p) ==
  [ net_id |-> p.network_id, x |-> p.world_x, y |-> p.world_y, vx |-> p.vx, vy |-> p.vy ]

Projectile_apply_state(p, state_data) ==
  [p EXCEPT !.world_x = state_data.x, !.world_y = state_data.y, !.vx = state_data.vx, !.vy = state_data.vy]

\* Game.get_full_snapshot of a host or single player world; the dicts of
\* structures, enemies and projectiles keep their insertion order
get_full_snapshot(g) ==
  [ resources |-> g.resources, wave_number |-> g.wave_number, wave_timer |-> g.wave_timer,
    in_wave |-> g.in_wave, game_over |-> g.game_over, game_won |-> g.game_won,
    players |-> [pid \in DOMAIN g.players |-> Player_get_state(g.players[pid])],
    structures |-> [k \in 1..Len(g.order) |-> Structure_get_state(g.structures[g.order[k]])],
    enemies |-> [k \in 1..Len(g.enemies) |-> Enemy_get_state(g.enemies[k])],
    projectiles |-> [k \in 1..Len(g.projectiles) |-> Projectile_get_state(g.projectiles[k])],
    base_terrain |-> [key \in {TerrainKey(c[1], c[2]) : c \in DOMAIN g.base_terrain} |->
                        g.base_terrain[CHOOSE c \in DOMAIN g.base_terrain : TerrainKey(c[1], c[2]) = key]],
    core_hp |-> IF g.core # None THEN CoreObj(g).hp ELSE 0,
    core_max_hp |-> IF g.core # None THEN CoreObj(g).max_hp ELSE CORE_HP * HP,
    next_enemy_id |-> g.next_enemy_id, next_projectile_id |-> g.next_projectile_id,
    game_mode_for_save |-> g.network_mode ]

\* the "Sync Structures" loop of apply_full_snapshot over the received
\* states that are not the Core's: acc is [grid, structures, order]
RECURSIVE sync_structures(_, _, _, _)
sync_structures(g, received, fire_timer, acc) ==
  IF received = << >> THEN acc
  ELSE
    LET struct_data == Head(received)
        sid == struct_data.net_id
        placed(obj) ==
          [ grid |-> IF InGrid(g, obj.grid_x, obj.grid_y)
                     THEN GridSet(acc.grid, <<obj.grid_x, obj.grid_y>>, Ref(sid)) ELSE acc.grid,
            structures |-> With(acc.structures, sid, obj),
            order |-> AppendNew(acc.order, sid) ]
    IN IF struct_data.type = BUILDING_CORE THEN sync_structures(g, Tail(received), fire_timer, acc)
       ELSE IF sid \notin DOMAIN g.structures /\ struct_data.type \notin building_info
       THEN sync_structures(g, Tail(received), fire_timer, acc)
       ELSE sync_structures(g, Tail(received), fire_timer,
              placed(IF sid \in DOMAIN g.structures
                     THEN Structure_apply_state(g.structures[sid], struct_data)
                     ELSE Structure_apply_state(
                            [NewStructure(struct_data.type, struct_data.gx, struct_data.gy,
                                          IF struct_data.type = BUILDING_CONVEYOR
                                          THEN struct_data.orientation ELSE EAST,
                                          fire_timer)
                               EXCEPT !.network_id = sid],
                            struct_data)))

\* "Apply Base Terrain": the snapshot always carries game_mode_for_save, so
\* the terrain of the snapshot replaces the local one and the grid restarts
\* from its patches
snapshot_terrain(snapshot) ==
  [c \in {ParseTerrainKey(key) : key \in DOMAIN snapshot.base_terrain} |->
     snapshot.base_terrain[CHOOSE key \in DOMAIN snapshot.base_terrain : ParseTerrainKey(key) = c]]

terrain_grid(g, new_base_terrain) ==
  [c \in {c \in DOMAIN new_base_terrain : InGrid(g, c[1], c[2])} |-> ResourcePatch(new_base_terrain[c])]

\* "Sync Players"
sync_players(g, snapshot) ==
  [pid \in DOMAIN snapshot.players |->
     IF pid \in DOMAIN g.players THEN Player_apply_state(g.players[pid], snapshot.players[pid])
     ELSE Player(snapshot.players[pid].x, snapshot.players[pid].y, pid,
                 snapshot.players[pid].name, snapshot.players[pid].color_idx)]

\* "Core Handling": synced is what the loop over the other structures left
sync_core(g, snapshot, synced, new_base_terrain) ==
  LET core_states == SelectSeq(snapshot.structures, LAMBDA st : st.type = BUILDING_CORE)
      core_data == core_states[Len(core_states)]
      old_cell == <<CoreObj(g).grid_x, CoreObj(g).grid_y>>
      with(core_obj) ==
        [ grid |-> IF InGrid(g, core_obj.grid_x, core_obj.grid_y)
                   THEN GridSet(synced.grid, <<core_obj.grid_x, core_obj.grid_y>>, Ref(core_obj.network_id))
                   ELSE synced.grid,
          structures |-> With(synced.structures, core_obj.network_id, core_obj),
          order |-> AppendNew(synced.order, core_obj.network_id),
          core |-> CoreRef(core_obj.network_id) ]
  IN IF core_states # << >>
     THEN with(IF g.core # None /\ CoreObj(g).network_id = core_data.net_id
               THEN Structure_apply_state(CoreObj(g), core_data)
               ELSE Structure_apply_state([Core(core_data.gx, core_data.gy) EXCEPT !.network_id = core_data.net_id],
                                          core_data))
     ELSE [ grid |-> IF g.core # None /\ InGrid(g, old_cell[1], old_cell[2])
                        /\ old_cell \in DOMAIN synced.grid
                        /\ synced.grid[old_cell] = Ref(CoreObj(g).network_id)
                     THEN GridSet(synced.grid, old_cell,
                                  IF old_cell \in DOMAIN new_base_terrain
                                  THEN ResourcePatch(new_base_terrain[old_cell]) ELSE None)
                     ELSE synced.grid,
            structures |-> synced.structures, order |-> synced.order, core |-> None ]

\* "Identify structures to remove": a tile goes back to the terrain when it
\* still holds the removed object
clear_removed(g, snapshot, with_core, new_base_terrain) ==
  LET received_structure_ids == {snapshot.structures[k].net_id : k \in 1..Len(snapshot.structures)}
      struct_ids_to_remove ==
        (DOMAIN g.structures \ received_structure_ids)
          \ (IF with_core.core # None THEN {with_core.core.id} ELSE {})
      holds_removed(c) ==
        /\ IsRef(with_core.grid[c]) /\ with_core.grid[c].id \in struct_ids_to_remove
        /\ c = <<g.structures[with_core.grid[c].id].grid_x, g.structures[with_core.grid[c].id].grid_y>>
  IN [c \in { c \in DOMAIN with_core.grid : ~(holds_removed(c) /\ c \notin DOMAIN new_base_terrain) } |->
        IF holds_removed(c) THEN ResourcePatch(new_base_terrain[c]) ELSE with_core.grid[c]]

\* "Ensure core HP matches snapshot explicitly"
core_hp_from_snapshot(snapshot, with_core) ==
  IF with_core.core # None
  THEN [with_core.structures EXCEPT ![with_core.core.id].hp = snapshot.core_hp,
                                    ![with_core.core.id].max_hp = snapshot.core_max_hp]
  ELSE with_core.structures

\* "Sync Enemies": a new enemy heads for the middle of the map
sync_enemies(g, snapshot) ==
  [k \in 1..Len(snapshot.enemies) |->
     LET enemy_data == snapshot.enemies[k]
         i == IndexOf(g.enemies, enemy_data.net_id)
     IN IF i # 0 THEN Enemy_apply_state(g.enemies[i], enemy_data)
        ELSE Enemy_apply_state(
               Enemy(enemy_data.x, enemy_data.y, << g.map_width_px \div 2, g.map_height_px \div 2 >>,
                     enemy_data.hp, ENEMY_SPEED, ENEMY_DAMAGE * HP, ENEMY_ATTACK_COOLDOWN, enemy_data.net_id),
               enemy_data)]

\* "Sync Projectiles": a new projectile has no target and no damage
sync_projectiles(g, snapshot) ==
  [k \in 1..Len(snapshot.projectiles) |->
     LET proj_data == snapshot.projectiles[k]
         j == IndexOf(g.projectiles, proj_data.net_id)
     IN IF j # 0 THEN Projectile_apply_state(g.projectiles[j], proj_data)
        ELSE Projectile_apply_state(
               ProjectileWithVelocity(proj_data.x, proj_data.y, PROJECTILE_SPEED, 0, proj_data.net_id,
                                      proj_data.vx, proj_data.vy),
               proj_data)]

\* a synchronisation that keeps the structures only the local world knows
apply_synced_keeps_local(g, snapshot, new_base_terrain, with_core) ==
  [g EXCEPT !.resources = snapshot.resources, !.wave_number = snapshot.wave_number,
            !.wave_timer = snapshot.wave_timer, !.in_wave = snapshot.in_wave,
            !.game_over = snapshot.game_over, !.game_won = snapshot.game_won,
            !.next_enemy_id = snapshot.next_enemy_id,
            !.next_projectile_id = snapshot.next_projectile_id,
            !.base_terrain = new_base_terrain,
            !.grid = clear_removed(g, snapshot, with_core, new_base_terrain),
            !.players = sync_players(g, snapshot),
            !.structures = [sid \in DOMAIN g.structures \cup DOMAIN with_core.structures |->
                              IF sid \in DOMAIN with_core.structures
                              THEN core_hp_from_snapshot(snapshot, with_core)[sid] ELSE g.structures[sid]],
            !.order = with_core.order, !.core = with_core.core,
            !.enemies = sync_enemies(g, snapshot), !.projectiles = sync_projectiles(g, snapshot)]

\* Game.apply_full_snapshot; fire_timer is the random start of the timer of
\* the turrets it constructs.  apply_synced puts the synchronised parts in
\* place, apply_on_terrain runs the sections after "Apply Base Terrain"
apply_synced(g, snapshot, new_base_terrain, with_core) ==
  [g EXCEPT !.resources = snapshot.resources, !.wave_number = snapshot.wave_number,
            !.wave_timer = snapshot.wave_timer, !.in_wave = snapshot.in_wave,
            !.game_over = snapshot.game_over, !.game_won = snapshot.game_won,
            !.next_enemy_id = snapshot.next_enemy_id,
            !.next_projectile_id = snapshot.next_projectile_id,
            !.base_terrain = new_base_terrain,
            !.grid = clear_removed(g, snapshot, with_core, new_base_terrain),
            !.players = sync_players(g, snapshot),
            !.structures = core_hp_from_snapshot(snapshot, with_core),
            !.order = with_core.order, !.core = with_core.core,
            !.enemies = sync_enemies(g, snapshot), !.projectiles = sync_projectiles(g, snapshot)]

apply_on_terrain(g, snapshot, fire_timer, new_base_terrain) ==
  apply_synced(g, snapshot, new_base_terrain,
               sync_core(g, snapshot,
                         sync_structures(g, snapshot.structures, fire_timer,
                                         [grid |-> terrain_grid(g, new_base_terrain),
                                          structures |-> [s \in {} |-> None], order |-> << >>]),
                         new_base_terrain))

apply_full_snapshot(g, snapshot, fire_timer) ==
  apply_on_terrain(g, snapshot, fire_timer, snapshot_terrain(snapshot))

\* Game.__init__ with load_data, for network_mode "host" or "sp": the
\* snapshot is applied to the blank world (LoadGame) and the "Post-Load
\* Validation" follows (post_load): player 0 is made sure of, the power
\* lists are rebuilt and the enemy hp follows the wave number
post_load(g) ==
  LET at == IF g.core # None
            THEN << Center(CoreObj(g))[1], Center(CoreObj(g))[2] - 2 * TILE_SIZE * PX >>
            ELSE << g.map_width_px \div 2, g.map_height_px \div 2 >>
  IN [rebuild_power_lists(IF 0 \in DOMAIN g.players THEN g
                          ELSE [g EXCEPT !.players = With(@, 0, Player(at[1], at[2], 0, "Player0", 0))])
        EXCEPT !.current_enemy_hp = (ENEMY_START_HP + Max(0, g.wave_number - 1) * ENEMY_HP_INCREASE_PER_WAVE) * HP]

LoadGame(network_mode, load_data, fire_timer) ==
  post_load(apply_full_snapshot(
              [BlankGame(network_mode, GridW, GridH) EXCEPT
                 !.resources = load_data.resources, !.wave_number = load_data.wave_number,
                 !.wave_timer = load_data.wave_timer, !.in_wave = load_data.in_wave,
                 !.game_over = load_data.game_over, !.game_won = load_data.game_won,
                 !.next_enemy_id = load_data.next_enemy_id,
                 !.next_projectile_id = load_data.next_projectile_id],
              load_data, fire_timer))

\* ------------------------------------------------------------------------
\* Saved games: what get_full_snapshot writes after a session in which the
\* player placed the buildings of a plan on a new world and the world then
\* ran for a number of frames of FrameMs each
\* ------------------------------------------------------------------------
FrameMs == 100

\* the random draws of the frames of a session
SessionDraw == [pick |-> 0, edge |-> "left", u |-> 50, jitter |-> 1000]

RECURSIVE PlaceAll(_, _)
PlaceAll(g, plan) ==
  IF plan = << >> THEN g
  ELSE PlaceAll(action_place_structure(g, 0, Head(plan)[1], Head(plan)[2], Head(plan)[3], Head(plan)[4], 0).game,
                Tail(plan))

RECURSIVE RunFrames(_, _)
RunFrames(g, n) ==
    \* n frames in a row, as two halves; the world between them is bound as
    \* a value before the second half starts from it
    IF n = 0 THEN g
    ELSE IF n = 1 THEN Game_update(g, FrameMs, SessionDraw)
    ELSE CHOOSE after \in { RunFrames(half, n - (n \div 2)) : half \in {RunFrames(g, n \div 2)} } : TRUE

Session(plan, frames) ==
    CHOOSE after \in { RunFrames(built, frames) : built \in {PlaceAll(NewGame("host", MainTerrain), plan)} } : TRUE

\* ------------------------------------------------------------------------
\* State
\*   game    the world of the host (or single player) Game object
\*   cgame   the world of a client Game object fed by the host's snapshots
\*   last    the last step taken: [op, ret, line]
\*   steps   the number of intents that returned True so far
\*   ticks   the number of frames the host has run
\*   snaps   the number of full snapshots the client has applied
\*   cticks  the number of frames the client has run
\*   net     the Server object of a host with the connections of its
\*           clients, NoServer where nobody has connected
\* ------------------------------------------------------------------------
VARIABLES game, cgame, last, steps, ticks, snaps, cticks, net

vars == <<game, cgame, last, steps, ticks, snaps, cticks, net>>

\* inputs of the intents: player ids (1 never joined), tiles, building types
\* (0 and 7 are not buildable), conveyor orientations, turret timer seeds
IntentPlayers == {0, 1}
IntentCells ==
  LET cc == CoreCell(GridW, GridH)
  IN { cc, <<cc[1] + 1, cc[2]>>, <<3, 1>>, <<16, 2>>, <<0, GridH - 1>>, <<GridW, 0>> }
IntentTypes == building_info \cup {BUILDING_NONE, BUILDING_CORE}
IntentOrientations == {EAST}
FireTimerSeeds == {0}

\* Game.__init__ with network_mode "client": nothing is set up locally
NewClient == BlankGame("client", GridW, GridH)

NoServer == [k |-> "none"]

Idle ==
  /\ cgame = NewClient /\ net = NoServer
  /\ last = [op |-> "init", ret |-> TRUE, line |-> 0]
  /\ steps = 0 /\ ticks = 0 /\ snaps = 0 /\ cticks = 0

Init ==
  /\ \E cells \in TerrainLayouts : game = NewGame("host", cells)
  /\ Idle

HandledUpTo(op, r, bound) ==
  /\ r.ret => steps < bound
  /\ game' = r.game
  /\ last' = [op |-> op, ret |-> r.ret, line |-> r.line]
  /\ steps' = IF r.ret THEN steps + 1 ELSE steps
  /\ UNCHANGED <<cgame, ticks, snaps, cticks, net>>

Handled(op, r) == HandledUpTo(op, r, MaxSteps)

\* a 'place' intent reaches action_place_structure
Place ==
  \E p \in IntentPlayers, b \in IntentTypes, c \in IntentCells, o \in IntentOrientations, ft \in FireTimerSeeds :
      Handled("place", action_place_structure(game, p, b, c[1], c[2], o, ft))

\* a 'remove' intent reaches action_remove_structure
RemoveIntent ==
  \E p \in IntentPlayers, c \in IntentCells :
      Handled("remove", action_remove_structure(game, p, c[1], c[2]))

\* an 'upgrade' intent reaches action_upgrade_structure
Upgrade ==
  \E p \in IntentPlayers, c \in IntentCells :
      Handled("upgrade", action_upgrade_structure(game, p, c[1], c[2]))

Next == Place \/ RemoveIntent \/ Upgrade

Spec == Init /\ [][Next]_vars

\* ------------------------------------------------------------------------
\* The running host: frames of Game.update between the intents of player 0
\* ------------------------------------------------------------------------
MaxTicks == 4
MaxSimSteps == 2

\* the draws of one frame: three outcomes of the random module
RandomDraws ==
  { [pick |-> 0, edge |-> "left", u |-> 50, jitter |-> 1000],
    [pick |-> 1, edge |-> "top", u |-> 25, jitter |-> 700],
    [pick |-> 2, edge |-> "right", u |-> 75, jitter |-> 1300] }

\* sessions that were saved: a lone Drill under attack in the first wave, a
\* Drill feeding a Turret that fires at the first enemy, and a coal Drill
\* feeding a generator with two poles
RaidPlan == << <<BUILDING_DRILL, 3, 1, EAST>> >>
RaidFrames == 335
DefencePlan == << <<BUILDING_DRILL, 3, 1, EAST>>, <<BUILDING_TURRET, 4, 1, EAST>> >>
DefenceFrames == 303
PowerPlan ==
  << <<BUILDING_DRILL, 16, 2, EAST>>, <<BUILDING_COALGENERATOR, 15, 2, EAST>>,
     <<BUILDING_POWERPOLE, 10, 2, EAST>>, <<BUILDING_POWERPOLE, 10, 1, EAST>> >>
PowerFrames == 30

RaidSave == get_full_snapshot(Session(RaidPlan, RaidFrames))
DefenceSave == get_full_snapshot(Session(DefencePlan, DefenceFrames))
PowerSave == get_full_snapshot(Session(PowerPlan, PowerFrames))

SimWorlds ==
  {NewGame("host", MainTerrain)} \cup {LoadGame("host", save, 0) : save \in {RaidSave, DefenceSave, PowerSave}}

InitSim ==
  /\ game \in SimWorlds
  /\ Idle

\* one pass of the main loop of the host
TickUpTo(bound) ==
  /\ ticks < bound
  /\ \E rnd \in RandomDraws : game' = Game_update(game, FrameMs, rnd)
  /\ last' = [op |-> "tick", ret |-> TRUE, line |-> 0]
  /\ ticks' = ticks + 1
  /\ UNCHANGED <<cgame, steps, snaps, cticks, net>>

Tick == TickUpTo(MaxTicks)

SimCells == { <<CoreCell(GridW, GridH)[1] + 1, CoreCell(GridW, GridH)[2]>>, <<3, 1>> }
SimTypes == {BUILDING_DRILL, BUILDING_TURRET, BUILDING_WALL}

SimPlace ==
  \E b \in SimTypes, c \in SimCells :
      HandledUpTo("place", action_place_structure(game, 0, b, c[1], c[2], EAST, 0), MaxSimSteps)

SimRemove ==
  \E c \in SimCells : HandledUpTo("remove", action_remove_structure(game, 0, c[1], c[2]), MaxSimSteps)

SimUpgrade ==
  \E c \in SimCells : HandledUpTo("upgrade", action_upgrade_structure(game, 0, c[1], c[2]), MaxSimSteps)

NextSim == Tick \/ SimPlace \/ SimRemove \/ SimUpgrade

SpecSim == InitSim /\ [][NextSim]_vars

\* ------------------------------------------------------------------------
\* A client that follows the host through full snapshots
\* ------------------------------------------------------------------------
MaxSyncTicks == 1
MaxSyncSteps == 3
MaxSnaps == 1
MaxClientTicks == 1
LocalPlayerId == 1

\* Conveyor.client_update
Conveyor_client_update(s, dt) ==
  LET potential_progress == s.item_progress + (dt * PROGRESS_ONE) \div Conveyor_transfer_time(s)
  IN IF ~(s.item_count > 0 /\ Conveyor_transfer_time(s) > 0) THEN s
     ELSE IF s.item_progress * 100 > 99 * PROGRESS_ONE /\ potential_progress > PROGRESS_ONE
     THEN [s EXCEPT !.item_progress = PROGRESS_ONE]
     ELSE [s EXCEPT !.item_progress =
             IF potential_progress > PROGRESS_ONE THEN potential_progress - PROGRESS_ONE ELSE potential_progress]

\* Projectile.client_update
Projectile_client_update(p, dt) ==
  IF p.destroyed THEN p
  ELSE [p EXCEPT !.world_x = @ + Quot(p.vx * dt, MS), !.world_y = @ + Quot(p.vy * dt, MS)]

\* Game.update with network_mode "client"
Client_update(g, dt) ==
  [g EXCEPT !.structures = [sid \in DOMAIN @ |->
                              IF @[sid].building_type = BUILDING_CONVEYOR
                              THEN Conveyor_client_update(@[sid], dt) ELSE @[sid]],
            !.projectiles = [j \in DOMAIN @ |-> Projectile_client_update(@[j], dt)],
            !.players = [pid \in DOMAIN @ |->
                           IF pid = LocalPlayerId THEN Player_update(@[pid], dt, g) ELSE @[pid]]]

SyncWorlds == {NewGame("host", MainTerrain), LoadGame("host", DefenceSave, 0)}

InitSync ==
  /\ game \in SyncWorlds
  /\ Idle

SyncTick == TickUpTo(MaxSyncTicks)

SyncPlace ==
  \E b \in SimTypes, c \in SimCells :
      HandledUpTo("place", action_place_structure(game, 0, b, c[1], c[2], EAST, 0), MaxSyncSteps)

SyncRemove ==
  \E c \in SimCells : HandledUpTo("remove", action_remove_structure(game, 0, c[1], c[2]), MaxSyncSteps)

\* the host sends its full snapshot and the client's network thread applies it
Snapshot ==
  /\ snaps < MaxSnaps
  /\ \E ft \in FireTimerSeeds : cgame' = apply_full_snapshot(cgame, get_full_snapshot(game), ft)
  /\ last' = [op |-> "snapshot", ret |-> TRUE, line |-> 0]
  /\ snaps' = snaps + 1
  /\ UNCHANGED <<game, steps, ticks, cticks, net>>

\* one pass of the main loop of the client
ClientTick ==
  /\ snaps > 0 /\ cticks < MaxClientTicks
  /\ cgame' = Client_update(cgame, FrameMs)
  /\ last' = [op |-> "client_tick", ret |-> TRUE, line |-> 0]
  /\ cticks' = cticks + 1
  /\ UNCHANGED <<game, steps, ticks, snaps, net>>

NextSync == SyncTick \/ SyncPlace \/ SyncRemove \/ Snapshot \/ ClientTick

SpecSync == InitSync /\ [][NextSync]_vars

\* ------------------------------------------------------------------------
\* Properties of the player actions
\* ------------------------------------------------------------------------
AllCells == (0..(GridW - 1)) \X (0..(GridH - 1))
Registry(g) == DOMAIN g.structures
IsNewWorld(g) == \E cells \in TerrainLayouts : g = NewGame("host", cells)

\* C1: every call of action_place_structure that returns False (unknown
\* player, unknown building type, tile out of bounds, cost not affordable,
\* tile outside the build radius, illegal tile) leaves the resources map
\* equal to what it was before the call.
C1_PlaceRejectedKeepsResources ==
  \A p \in IntentPlayers, b \in IntentTypes, c \in IntentCells, o \in IntentOrientations, ft \in FireTimerSeeds :
    LET r == action_place_structure(game, p, b, c[1], c[2], o, ft)
    IN ~r.ret => r.game.resources = game.resources

\* a placement that passed the affordability test was rejected for its tile
C1_Witness == last.op = "place" /\ ~last.ret /\ last.line = 1683 /\ steps > 0

\* C2: a placement returns True only if the tile holds a ResourcePatch and
\* the building is a Drill, or the tile is empty and the building is not a
\* Drill; a Drill on an empty tile of a new world (copper 200, coal 100)
\* fails and leaves the resources; and a successful placement keeps every
\* structure that was registered, unchanged and on its tile.
C2_PlaceOnlyOnLegalTile ==
  /\ \A p \in IntentPlayers, b \in IntentTypes, c \in IntentCells, o \in IntentOrientations, ft \in FireTimerSeeds :
       LET r == action_place_structure(game, p, b, c[1], c[2], o, ft)
           existing == get_structure_at(game, c[1], c[2])
       IN r.ret =>
            /\ \/ IsPatch(existing) /\ b = BUILDING_DRILL
               \/ existing = None /\ b # BUILDING_DRILL
            /\ \A sid \in Registry(game) :
                 /\ sid \in Registry(r.game)
                 /\ r.game.structures[sid] = game.structures[sid]
                 /\ get_structure_at(r.game, sid[1], sid[2]) = get_structure_at(game, sid[1], sid[2])
  /\ IsNewWorld(game) =>
       \A c \in AllCells, p \in DOMAIN game.players :
         get_structure_at(game, c[1], c[2]) = None =>
           LET r == action_place_structure(game, p, BUILDING_DRILL, c[1], c[2], EAST, 0)
           IN ~r.ret /\ r.game.resources = [copper |-> STARTING_COPPER, coal |-> STARTING_COAL]

\* a Drill stands on a patch next to a building placed on an empty tile
C2_Witness ==
  /\ last.op = "place" /\ last.ret
  /\ \E sid \in Registry(game) : sid[3] = BUILDING_DRILL /\ <<sid[1], sid[2]>> \in DOMAIN game.base_terrain
  /\ \E sid \in Registry(game) : sid[3] \notin {BUILDING_DRILL, BUILDING_CORE}

\* C4: a successful action_remove_structure adds to each resource the floor
\* of 50% of its amount in the build cost of the structure, deletes the
\* structure from the registry and from the power node and power consumer
\* lists, and leaves the tile with a ResourcePatch when it has base terrain
\* and empty otherwise.
C4_RemoveRefundsHalfAndClears ==
  \A p \in IntentPlayers, c \in IntentCells :
    LET r == action_remove_structure(game, p, c[1], c[2])
    IN r.ret =>
         LET sid == get_structure_at(game, c[1], c[2]).id
             cost == StructureCost(sid[3])
         IN /\ \A res \in {RES_COPPER, RES_COAL} :
                 r.game.resources[res] = game.resources[res] + (IF res \in DOMAIN cost THEN (cost[res] * 50) \div 100 ELSE 0)
            /\ sid \notin Registry(r.game)
            /\ ~InSeq(r.game.power_nodes, sid) /\ ~InSeq(r.game.power_consumers, sid)
            /\ get_structure_at(r.game, c[1], c[2]) =
                 (IF c \in DOMAIN game.base_terrain THEN ResourcePatch(game.base_terrain[c]) ELSE None)

\* a Drill was bought for 15 copper and removed for 7: the patch is back
C4_Witness ==
  /\ last.op = "remove" /\ last.ret /\ steps = 2
  /\ game.resources = [copper |-> 192, coal |-> 100]
  /\ \E cells \in TerrainLayouts : game.grid = NewGame("host", cells).grid

CoreInPlace(g) ==
  /\ g.core # None /\ g.core.k = "ref" /\ g.core.id \in Registry(g)
  /\ get_structure_at(g, g.core.id[1], g.core.id[2]) = Ref(g.core.id)

\* C5: a remove intent keeps the Core in the registry and on its tile, so
\* that it is there after any sequence of them; aimed at the Core's tile it
\* returns False without a refund, and aimed at a tile that holds only a
\* resource patch it returns False and changes nothing.
C5_RemoveSparesCoreAndPatches ==
  \A p \in IntentPlayers, c \in IntentCells :
    LET r == action_remove_structure(game, p, c[1], c[2])
        occ == get_structure_at(game, c[1], c[2])
    IN /\ CoreInPlace(game) => CoreInPlace(r.game)
       /\ (occ # None /\ OccupantType(occ) = BUILDING_CORE) => ~r.ret /\ r.game.resources = game.resources
       /\ (occ # None /\ IsPatch(occ)) => ~r.ret /\ r.game = game

\* a remove intent on the Core or on a patch was refused after other removals
C5_Witness == last.op = "remove" /\ ~last.ret /\ last.line = 1727 /\ steps >= 2 /\ CoreInPlace(game)

\* what a refused action must leave alone
Frame(g) == <<g.grid, g.structures, g.order, g.power_nodes, g.power_consumers, g.resources>>

\* C6: every False return of place, remove or upgrade leaves the world as
\* it was: the grid, the registry with every structure's tier and hp, the
\* power node and consumer lists and the resource counts.
C6_RejectedIntentChangesNothing ==
  /\ \A p \in IntentPlayers, b \in IntentTypes, c \in IntentCells, o \in IntentOrientations, ft \in FireTimerSeeds :
       LET r == action_place_structure(game, p, b, c[1], c[2], o, ft)
       IN ~r.ret => Frame(r.game) = Frame(game)
  /\ \A p \in IntentPlayers, c \in IntentCells :
       /\ LET r == action_remove_structure(game, p, c[1], c[2]) IN ~r.ret => Frame(r.game) = Frame(game)
       /\ LET r == action_upgrade_structure(game, p, c[1], c[2]) IN ~r.ret => Frame(r.game) = Frame(game)

\* an upgrade was refused for its cost
C6_Witness == last.op = "upgrade" /\ ~last.ret /\ last.line = 1761

\* ------------------------------------------------------------------------
\* Properties of upgrades and of the power grid on a running host
\* ------------------------------------------------------------------------
\* C3: for every structure with tier < max_tier and a cost for the next
\* tier, a successful action_upgrade_structure raises the tier by exactly
\* 1, keeps hp / max_hp as it was to within the rounding of one thousandth
\* of a point (or sets hp to 1 where the scaled value is below 1), and
\* leaves at least 1 hp whenever max_hp > 0.
C3_UpgradeRaisesTierKeepsHpRatio ==
  \A p \in IntentPlayers, c \in IntentCells \cup SimCells :
    LET r == action_upgrade_structure(game, p, c[1], c[2])
    IN r.ret =>
         LET sid == get_structure_at(game, c[1], c[2]).id
             old == game.structures[sid]
             new == r.game.structures[sid]
             old_points == old.max_hp \div HP
             new_points == new.max_hp \div HP
         IN /\ old.tier < StructureMaxTier(old.building_type)
            /\ (old.tier + 1) \in DOMAIN StructureUpgradeCost(old.building_type)
            /\ new.tier = old.tier + 1
            /\ new.max_hp > 0 => new.hp >= HP
            /\ new.hp <= new.max_hp
            /\ \/ /\ new.hp * old_points <= old.hp * new_points
                  /\ old.hp * new_points < (new.hp + 1) * old_points
               \/ new.hp = HP /\ old.hp * new_points < HP * old_points

\* a Drill that an enemy had damaged was upgraded to tier 2
C3_Witness ==
  /\ last.op = "upgrade" /\ last.ret
  /\ \E sid \in Registry(game) :
       /\ game.structures[sid].tier = 2
       /\ game.structures[sid].hp < game.structures[sid].max_hp

PowerNodes(g) == {sid \in Registry(g) : is_power_node(g.structures[sid])}
Picks == {rnd.pick : rnd \in RandomDraws}
TooFar(a, b) ==
  distance_sq(Center(a)[1], Center(a)[2], Center(b)[1], Center(b)[2]) > (POWER_RADIUS * PX) * (POWER_RADIUS * PX)

\* C10: after every run of update_power_grid, two power nodes whose
\* centres are more than POWER_RADIUS apart are not in each other's
\* connected_nodes_coords.
C10_FarNodesNotLinked ==
  \A pick \in Picks :
    LET after == update_power_grid(game, FrameMs, pick)
    IN \A a \in PowerNodes(after), b \in PowerNodes(after) :
         TooFar(after.structures[a], after.structures[b]) =>
           ~InSeq(after.structures[a].connected_nodes_coords, Center(after.structures[b]))

\* the host has run the power grid: a generator and a pole more than
\* POWER_RADIUS apart are on one network through a pole that links both
C10_Witness ==
  /\ last.op = "tick" /\ game.power_grid_update_timer = 0
  /\ \E a \in PowerNodes(game), b \in PowerNodes(game), m \in PowerNodes(game) :
       /\ TooFar(game.structures[a], game.structures[b])
       /\ game.structures[a].is_on_grid /\ game.structures[b].is_on_grid
       /\ InSeq(game.structures[m].connected_nodes_coords, Center(game.structures[a]))
       /\ InSeq(game.structures[m].connected_nodes_coords, Center(game.structures[b]))
       /\ ~InSeq(game.structures[a].connected_nodes_coords, Center(game.structures[b]))

\* ------------------------------------------------------------------------
\* Properties of the full snapshot
\* ------------------------------------------------------------------------
\* r without the attributes named in hidden
Hide(r, hidden) == [f \in DOMAIN r \ hidden |-> r[f]]

\* the links drawn between power nodes and to consumers, the battery's
\* arrows, and the timers and targets of the simulation that no snapshot
\* carries
TransientStructureFields ==
  { "connected_nodes_coords", "power_source_coords", "is_charging", "is_discharging",
    "fire_timer", "target_id", "mining_timer", "output_timer", "consume_timer", "repair_timer" }
TransientEnemyFields == { "target_core_coords", "current_attack_target_id", "attack_timer" }
TransientProjectileFields == { "target_enemy_id", "lifetime" }
TransientPlayerFields == { "move_x", "move_y" }

SameEntities(a, b) ==
  /\ DOMAIN a.structures = DOMAIN b.structures
  /\ \A sid \in DOMAIN a.structures :
       Hide(a.structures[sid], TransientStructureFields) = Hide(b.structures[sid], TransientStructureFields)
  /\ Len(a.enemies) = Len(b.enemies)
  /\ \A k \in 1..Len(a.enemies) :
       Hide(a.enemies[k], TransientEnemyFields) = Hide(b.enemies[k], TransientEnemyFields)
  /\ Len(a.projectiles) = Len(b.projectiles)
  /\ \A k \in 1..Len(a.projectiles) :
       Hide(a.projectiles[k], TransientProjectileFields) = Hide(b.projectiles[k], TransientProjectileFields)
  /\ DOMAIN a.players = DOMAIN b.players
  /\ \A pid \in DOMAIN a.players :
       Hide(a.players[pid], TransientPlayerFields) = Hide(b.players[pid], TransientPlayerFields)
  /\ a.resources = b.resources

\* C7: the snapshot of the host's world, applied to a newly constructed
\* empty world, gives a world with the same structures, enemies,
\* projectiles, players and resources, the transient fields left aside.
C7_RoundTrip ==
  \A ft \in FireTimerSeeds :
    SameEntities(apply_full_snapshot(NewClient, get_full_snapshot(game), ft), game)

\* C8: for the client's world, new or synchronised before, and the
\* snapshot of the host's world, applying the snapshot a second time
\* changes nothing: the registries, the grid, the terrain, the resources,
\* the wave state and the id counters are those of the first application.
C8_SnapshotIdempotent ==
  \A w \in {cgame, NewClient}, ft \in FireTimerSeeds, ft2 \in FireTimerSeeds :
    LET snapshot == get_full_snapshot(game)
        once == apply_full_snapshot(w, snapshot, ft)
    IN apply_full_snapshot(once, snapshot, ft2) = once

EnemyIds(g) == {g.enemies[k].network_id : k \in 1..Len(g.enemies)}
ProjectileIds(g) == {g.projectiles[k].network_id : k \in 1..Len(g.projectiles)}

\* the client knows an enemy at another place than the host's snapshot
\* says, after a snapshot and a frame of the host
C8_Witness ==
  /\ snaps > 0 /\ last.op = "tick"
  /\ \E k \in 1..Len(cgame.enemies), j \in 1..Len(game.enemies) :
       /\ cgame.enemies[k].network_id = game.enemies[j].network_id
       /\ cgame.enemies[k].world_x # game.enemies[j].world_x
  /\ Registry(cgame) # Registry(game)

StateOf(snapshot, sid) ==
  snapshot.structures[CHOOSE k \in 1..Len(snapshot.structures) : snapshot.structures[k].net_id = sid]

\* what C9 says of the worlds before and after a snapshot, but for the
\* cells of the removed structures
Reconciled(before, snapshot, after) ==
  LET received == {snapshot.structures[k].net_id : k \in 1..Len(snapshot.structures)}
  IN /\ DOMAIN after.players = DOMAIN snapshot.players
     /\ Registry(after) = received
     /\ EnemyIds(after) = {snapshot.enemies[k].net_id : k \in 1..Len(snapshot.enemies)}
     /\ ProjectileIds(after) = {snapshot.projectiles[k].net_id : k \in 1..Len(snapshot.projectiles)}
     /\ Len(after.enemies) = Len(snapshot.enemies) /\ Len(after.projectiles) = Len(snapshot.projectiles)
     /\ \A pid \in DOMAIN after.players :
          IF pid \in DOMAIN before.players
          THEN after.players[pid] = Player_apply_state(before.players[pid], snapshot.players[pid])
          ELSE Player_get_state(after.players[pid]) = snapshot.players[pid]
     /\ \A sid \in Registry(after) :
          /\ IF sid \in Registry(before)
             THEN after.structures[sid] = Structure_apply_state(before.structures[sid], StateOf(snapshot, sid))
             ELSE Structure_get_state(after.structures[sid]) = StateOf(snapshot, sid)
          /\ get_structure_at(after, after.structures[sid].grid_x, after.structures[sid].grid_y) = Ref(sid)
     /\ (after.core # None) = (\E sid \in received : sid[3] = BUILDING_CORE)
     /\ after.core # None => after.core.k = "ref" /\ after.core.id \in Registry(after)
     /\ \A k \in 1..Len(after.enemies) :
          LET i == IndexOf(before.enemies, after.enemies[k].network_id)
          IN IF i # 0 THEN after.enemies[k] = Enemy_apply_state(before.enemies[i], snapshot.enemies[k])
             ELSE Enemy_get_state(after.enemies[k]) = snapshot.enemies[k]
     /\ \A k \in 1..Len(after.projectiles) :
          LET j == IndexOf(before.projectiles, after.projectiles[k].network_id)
          IN IF j # 0 THEN after.projectiles[k] = Projectile_apply_state(before.projectiles[j], snapshot.projectiles[k])
             ELSE Projectile_get_state(after.projectiles[k]) = snapshot.projectiles[k]

TerrainAt(g, c) == IF c \in DOMAIN g.base_terrain THEN ResourcePatch(g.base_terrain[c]) ELSE None
CellOf(s) == <<s.grid_x, s.grid_y>>
Removed(before, after) == Registry(before) \ Registry(after)
Rebuilt(before, after, sid) == \E other \in Registry(after) : CellOf(after.structures[other]) = CellOf(before.structures[sid])

\* C9 as stated: after the client applies a full snapshot the ids it knows
\* of players, structures with the Core, enemies and projectiles are those
\* of the snapshot, known entities are updated in place, new ones created
\* and the others removed, every structure stands on the cell of its
\* coordinates, and the cell of every removed structure holds the terrain
\* patch where there is terrain and nothing otherwise.
C9_RemovedCellsBackToTerrain ==
  \A ft \in FireTimerSeeds :
    LET snapshot == get_full_snapshot(game)
        after == apply_full_snapshot(cgame, snapshot, ft)
    IN /\ Reconciled(cgame, snapshot, after)
       /\ \A sid \in Removed(cgame, after) :
            get_structure_at(after, sid[1], sid[2]) = TerrainAt(after, CellOf(cgame.structures[sid]))

\* C9, amended: the same, where the cell of a removed structure holds the
\* terrain patch or nothing unless a structure of the snapshot stands on
\* that cell.
C9_SnapshotReconciles ==
  \A ft \in FireTimerSeeds :
    LET snapshot == get_full_snapshot(game)
        after == apply_full_snapshot(cgame, snapshot, ft)
    IN /\ Reconciled(cgame, snapshot, after)
       /\ \A sid \in Removed(cgame, after) :
            ~Rebuilt(cgame, after, sid) =>
              get_structure_at(after, sid[1], sid[2]) = TerrainAt(after, CellOf(cgame.structures[sid]))

\* the client, synchronised before, applies a snapshot that updates a
\* structure it knows, brings one it lacks and drops one the host has
\* removed, whose cell goes back to the terrain
C9_Witness ==
  /\ snaps > 0 /\ last.op = "place" /\ last.ret
  /\ LET after == apply_full_snapshot(cgame, get_full_snapshot(game), 0)
     IN /\ \E sid \in Removed(cgame, after) :
             /\ ~Rebuilt(cgame, after, sid)
             /\ get_structure_at(cgame, sid[1], sid[2]) = Ref(sid)
             /\ get_structure_at(after, sid[1], sid[2]) = TerrainAt(after, <<sid[1], sid[2]>>)
        /\ \E sid \in Registry(after) \ Registry(cgame) : get_structure_at(after, sid[1], sid[2]) = Ref(sid)
        /\ \E sid \in Registry(after) \cap Registry(cgame) : sid[3] # BUILDING_CORE

\* ------------------------------------------------------------------------
\* The power grid of a world late in a game: the stock has grown through
\* deliveries to the Core, generators exist and coal reaches them
\* ------------------------------------------------------------------------
MaxPowerTicks == 36
MaxFeeds == 2
StockCopper == 1000
StockCoal == 1000

\* the resources after the deliveries that Core.try_accept_item has counted
Stocked(g) == [g EXCEPT !.resources = [copper |-> StockCopper, coal |-> StockCoal]]

\* one generator, a pole within POWER_RADIUS of it and a Reconstructor
\* within POWER_RADIUS of the pole only; no battery
OneGridPlan ==
  << <<BUILDING_COALGENERATOR, 17, 2, EAST>>, <<BUILDING_POWERPOLE, 13, 2, EAST>>,
     <<BUILDING_RECONSTRUCTOR, 9, 2, EAST>> >>

\* two generators 13 tiles apart, the western one with a pole and three
\* Reconstructors of its own; the Reconstructor at (12, 2) is within
\* POWER_RADIUS of the pole and of the eastern generator
WestGrid ==
  << <<BUILDING_COALGENERATOR, 4, 2, EAST>>, <<BUILDING_POWERPOLE, 8, 2, EAST>>,
     <<BUILDING_RECONSTRUCTOR, 5, 1, EAST>>, <<BUILDING_RECONSTRUCTOR, 5, 3, EAST>>,
     <<BUILDING_RECONSTRUCTOR, 6, 2, EAST>>, <<BUILDING_RECONSTRUCTOR, 12, 2, EAST>> >>
EastGrid == << <<BUILDING_COALGENERATOR, 17, 2, EAST>> >>

PowerPlans == { OneGridPlan, WestGrid \o EastGrid }

InitPower ==
  /\ \E plan \in PowerPlans : game = PlaceAll(Stocked(NewGame("host", MainTerrain)), plan)
  /\ Idle

PowerTick == TickUpTo(MaxPowerTicks)

Generators(g) == {sid \in DOMAIN g.structures : sid[3] = BUILDING_COALGENERATOR}

\* a Drill or a Conveyor hands one coal to a generator
Delivered(r) == [game |-> r.game, ret |-> r.ret, line |-> 0]

\* a conveyor hands one coal to a generator
Feed ==
  \E sid \in Generators(game) :
    HandledUpTo("feed", Delivered(try_accept_item(game, Ref(sid), RES_COAL)), MaxFeeds)

NextPower == PowerTick \/ Feed

SpecPower == InitPower /\ [][NextPower]_vars

\* the main loop calls Game.update every frame: no world waits for ever
\* for its next frame.  The steps that count a frame are those of PowerTick
PowerFrameElapses == ticks < MaxPowerTicks /\ ticks' = ticks + 1

SpecPowerLive == SpecPower /\ WF_ticks(PowerFrameElapses)

\* ------------------------------------------------------------------------
\* The components of the power grid as update_power_grid sees them

\* the networks the search finds, each a sequence of node ids
Components(g) == power_networks(power_reset(g)).networks

Consumers(g) == {g.power_consumers[k] : k \in 1..Len(g.power_consumers)}

AttachedTo(g, cid, nodes) == \E k \in 1..Len(nodes) : within_power_radius(g.structures[cid], g.structures[nodes[k]])

Generation(g, nodes) ==
  SeqSum([k \in 1..Len(nodes) |-> IF is_power_source(g.structures[nodes[k]]) THEN COALGENERATOR_POWER_OUTPUT ELSE 0])

MaxDischarge(g, nodes) ==
  SeqSum([k \in 1..Len(nodes) |->
            IF is_power_storage(g.structures[nodes[k]]) /\ g.structures[nodes[k]].charge > 0
            THEN BATTERY_DISCHARGE_RATE ELSE 0])

Demand(g, nodes) ==
  SeqSum([k \in 1..Len(g.power_consumers) |->
            IF AttachedTo(g, g.power_consumers[k], nodes)
            THEN power_consumption(g.structures[g.power_consumers[k]]) ELSE 0])

Starved(g, nodes) == Generation(g, nodes) + MaxDischarge(g, nodes) < Demand(g, nodes)

\* C11: after a run of update_power_grid no consumer attached to a component
\* whose generation plus maximum battery discharge is below the demand of
\* its attached consumers is marked is_powered, also when the consumer is
\* within radius of nodes of several components
C11_StarvedComponentPowersNobody ==
  \A pick \in Picks :
    \A k \in 1..Len(Components(game)) : \A cid \in Consumers(game) :
      (AttachedTo(game, cid, Components(game)[k]) /\ Starved(game, Components(game)[k]))
        => ~update_power_grid(game, FrameMs, pick).structures[cid].is_powered

\* ------------------------------------------------------------------------
\* One generator, one pole, one consumer, no battery

PlantGenerator == <<17, 2, BUILDING_COALGENERATOR>>

PlantConsumer == <<9, 2, BUILDING_RECONSTRUCTOR>>

OnePlant(g) ==
  /\ Generators(g) = {PlantGenerator} /\ Consumers(g) = {PlantConsumer}
  /\ \A sid \in DOMAIN g.structures : ~is_power_storage(g.structures[sid])

\* a frame in which the power engine runs leaves the consumer powered
\* exactly when the generator entered the frame with coal in its buffer
C12_AfterEngineRun ==
  OnePlant(game) =>
    \A rnd \in RandomDraws :
      Game_update(game, FrameMs, rnd).power_grid_update_timer = 0
        => (Game_update(game, FrameMs, rnd).structures[PlantConsumer].is_powered
              <=> game.structures[PlantGenerator].coal_buffer > 0)

\* the buffer is empty and frames enough remain for the next engine run
Depleted ==
  /\ OnePlant(game) /\ game.structures[PlantGenerator].coal_buffer = 0
  /\ ticks + 3 <= MaxPowerTicks

UnpoweredOrFed ==
  /\ OnePlant(game)
  /\ ~game.structures[PlantConsumer].is_powered \/ game.structures[PlantGenerator].coal_buffer > 0

BeltFrames == 40
MaxBeltTicks == 12
MaxBeltSteps == 2

BeltPlan == << <<BUILDING_DRILL, 3, 1, EAST>>, <<BUILDING_CONVEYOR, 4, 1, EAST>> >>

BeltWorld ==
  CHOOSE after \in { RunFrames(built, BeltFrames) :
                       built \in {action_upgrade_structure(PlaceAll(Stocked(NewGame("host", MainTerrain)), BeltPlan),
                                                           0, 4, 1).game} } : TRUE

InitBelt ==
  /\ game = BeltWorld
  /\ Idle

BeltTick == TickUpTo(MaxBeltTicks)

BeltTypes == {BUILDING_TURRET, BUILDING_CONVEYOR, BUILDING_WALL}

BeltPlace ==
  \E b \in BeltTypes : HandledUpTo("place", action_place_structure(game, 0, b, 5, 1, EAST, 0), MaxBeltSteps)

BeltRemove == HandledUpTo("remove", action_remove_structure(game, 0, 5, 1), MaxBeltSteps)

\* the player upgrades the loaded Conveyor
BeltUpgrade == HandledUpTo("upgrade", action_upgrade_structure(game, 0, 4, 1), MaxBeltSteps)

NextBelt == BeltTick \/ BeltPlace \/ BeltRemove \/ BeltUpgrade

SpecBelt == InitBelt /\ [][NextBelt]_vars

Conveyors(g) == {sid \in DOMAIN g.structures : sid[3] = BUILDING_CONVEYOR}

\* the lengths of a frame, in ms: dt is capped at FrameMs
TickLengths == {1, 16, 33, FrameMs}

\* item_progress after the increment of Conveyor.update
Advanced(s, dt) == s.item_progress + (dt * PROGRESS_ONE) \div Conveyor_transfer_time(s)

\* C13: after Conveyor.update, for every conveyor and every tick length,
\* item_progress does not exceed 1.0 when no item left the conveyor (the
\* push failed), and after a push that leaves more items queued it is the
\* excess carried over, the advanced progress minus 1.0, and not below 0
C13_ProgressSaturatesAndCarries ==
  \A sid \in Conveyors(game) : \A dt \in TickLengths :
    LET before == game.structures[sid]
        after == Conveyor_update(game, sid, dt).structures[sid]
    IN /\ after.item_count = before.item_count => after.item_progress <= PROGRESS_ONE
       /\ (after.item_count < before.item_count /\ after.item_count > 0)
            => /\ after.item_progress = Advanced(before, dt) - PROGRESS_ONE
               /\ after.item_progress >= 0

\* a blocked conveyor with two items has found room ahead: one more frame
\* pushes the first item and carries an excess over
C13_Witness ==
  \E sid \in Conveyors(game) :
    /\ game.structures[sid].item_count = 2
    /\ game.structures[sid].item_progress = PROGRESS_ONE
    /\ Conveyor_update(game, sid, FrameMs).structures[sid].item_count = 1
    /\ Conveyor_update(game, sid, FrameMs).structures[sid].item_progress > 0

\* C27: every Conveyor holds between 0 and the capacity of its tier items,
\* item_type is None exactly when it holds none, and try_accept_item of a
\* resource succeeds exactly when item_count < capacity and the conveyor is
\* empty or holds that resource
C27_ConveyorHoldsOneKind ==
  \A sid \in Conveyors(game) :
    /\ game.structures[sid].item_count \in 0..Conveyor_capacity(game.structures[sid])
    /\ game.structures[sid].item_type = NoRes <=> game.structures[sid].item_count = 0
    /\ \A kind \in {RES_COPPER, RES_COAL} :
         try_accept_item(game, Ref(sid), kind).ret
           <=> /\ game.structures[sid].item_count < Conveyor_capacity(game.structures[sid])
               /\ game.structures[sid].item_count = 0 \/ kind = game.structures[sid].item_type

\* the loaded Conveyor was upgraded to tier 3 with two items of copper on
\* it: it takes a third copper and refuses coal
C27_Witness ==
  \E sid \in Conveyors(game) :
    /\ last.op = "upgrade" /\ last.ret
    /\ game.structures[sid].tier = 3 /\ game.structures[sid].item_count = 2
    /\ game.structures[sid].item_type = RES_COPPER
    /\ try_accept_item(game, Ref(sid), RES_COPPER).ret /\ ~try_accept_item(game, Ref(sid), RES_COAL).ret

\* ------------------------------------------------------------------------
\* A defence under fire: the session of DefencePlan goes on, the Turret
\* shoots at the enemies of the first wave and the player upgrades it
\* ------------------------------------------------------------------------
MaxFightTicks == 30
MaxFightSteps == 1

\* the defence with a coal Drill, a generator and two poles that lead to
\* the Turret, which the player has upgraded to tier 3
LaserPlan ==
  DefencePlan \o << <<BUILDING_DRILL, 16, 2, EAST>>, <<BUILDING_COALGENERATOR, 17, 2, EAST>>,
                    <<BUILDING_POWERPOLE, 12, 2, EAST>>, <<BUILDING_POWERPOLE, 7, 2, EAST>> >>

LaserBuilt ==
  action_upgrade_structure(
    action_upgrade_structure(PlaceAll(Stocked(NewGame("host", MainTerrain)), LaserPlan), 0, 4, 1).game,
    0, 4, 1).game

LaserWorld == CHOOSE after \in { RunFrames(built, DefenceFrames) : built \in {LaserBuilt} } : TRUE

\* the same defence with a second Turret of tier 3 next to the first
CrossfireBuilt ==
  action_upgrade_structure(
    action_upgrade_structure(action_place_structure(LaserBuilt, 0, BUILDING_TURRET, 4, 0, EAST, 0).game, 0, 4, 0).game,
    0, 4, 0).game

CrossfireWorld == CHOOSE after \in { RunFrames(built, DefenceFrames) : built \in {CrossfireBuilt} } : TRUE

\* a coal Drill, a generator and a Reconstructor around one corner
SiegePlan ==
  << <<BUILDING_DRILL, 16, 2, EAST>>, <<BUILDING_COALGENERATOR, 17, 2, EAST>>,
     <<BUILDING_RECONSTRUCTOR, 17, 1, EAST>> >>

\* an enemy within attack range of the three buildings of SiegePlan
Raider == [ net_id |-> 1, x |-> 17 * TILE_SIZE * PX, y |-> 67 * PX, hp |-> ENEMY_START_HP * HP, max_hp |-> ENEMY_START_HP * HP ]

RaidHp == 20

\* a projectile that flies west along the top row, fired from the east end
\* at an enemy that is gone
Stray == [ net_id |-> 1, x |-> 600 * PX, y |-> (TILE_SIZE \div 2) * PX, vx |-> -(PROJECTILE_SPEED * PX), vy |-> 0 ]

\* the save of a world whose buildings are one hit from destruction
SiegeSave ==
  LET save == get_full_snapshot(PlaceAll(Stocked(NewGame("host", MainTerrain)), SiegePlan))
  IN [save EXCEPT !.structures = [k \in DOMAIN save.structures |-> [save.structures[k] EXCEPT !.hp = RaidHp * HP]],
                  !.wave_number = 1, !.in_wave = TRUE, !.wave_timer = 20 * MS,
                  !.enemies = << Raider >>, !.next_enemy_id = 1,
                  !.projectiles = << Stray >>, !.next_projectile_id = 1]

FightWorlds == { Session(DefencePlan, DefenceFrames), LaserWorld, CrossfireWorld, LoadGame("host", SiegeSave, 0) }

InitFight ==
  /\ game \in FightWorlds
  /\ Idle

FightTick == TickUpTo(MaxFightTicks)

FightUpgrade == HandledUpTo("upgrade", action_upgrade_structure(game, 0, 4, 1), MaxFightSteps)

\* the cells of the coal Drill and of the Turret
FightCells == { <<16, 2>>, <<4, 1>> }
FightTypes == {BUILDING_DRILL, BUILDING_WALL}

FightPlace ==
  \E b \in FightTypes, c \in FightCells :
      HandledUpTo("place", action_place_structure(game, 0, b, c[1], c[2], EAST, 0), MaxFightSteps)

FightRemove ==
  \E c \in FightCells : HandledUpTo("remove", action_remove_structure(game, 0, c[1], c[2]), MaxFightSteps)

NextFight == FightTick \/ FightUpgrade \/ FightPlace \/ FightRemove

SpecFight == InitFight /\ [][NextFight]_vars

\* the main loop calls Game.update every frame
FightFrameElapses == ticks < MaxFightTicks /\ ticks' = ticks + 1

SpecFightLive == SpecFight /\ WF_ticks(FightFrameElapses)

\* ------------------------------------------------------------------------
\* Projectiles and the enemies they are aimed at

\* the projectile at (x, y) is closer to the enemy e than TILE_SIZE / 3 + 4
WithinHitRadius(x, y, e) ==
  9 * distance_sq(x, y, e.world_x, e.world_y) < ((TILE_SIZE + 12) * PX) * ((TILE_SIZE + 12) * PX)

\* the places in g.enemies of the live target of the live projectile j
TargetOf(g, j) ==
  {i \in 1..Len(g.enemies) : /\ ~g.projectiles[j].destroyed
                             /\ g.enemies[i].network_id = g.projectiles[j].target_enemy_id
                             /\ ~g.enemies[i].destroyed}

Hits(g, j, i, dt) ==
  WithinHitRadius(Projectile_update(g, j, dt).projectiles[j].world_x,
                  Projectile_update(g, j, dt).projectiles[j].world_y, g.enemies[i])

\* C14: when a projectile whose target is present and not destroyed is,
\* after its update, within the hit radius of the target, the update has
\* taken exactly the projectile's damage from the enemy's hp, floored at 0
\* with the enemy destroyed at 0, and has destroyed the projectile
C14_HitTakesDamage ==
  \A j \in 1..Len(game.projectiles) : \A i \in TargetOf(game, j) : \A dt \in TickLengths :
    Hits(game, j, i, dt) =>
      LET after == Projectile_update(game, j, dt)
      IN /\ after.enemies[i].hp = Max(0, game.enemies[i].hp - game.projectiles[j].damage)
         /\ after.enemies[i].destroyed = (game.enemies[i].hp - game.projectiles[j].damage <= 0)
         /\ after.projectiles[j].destroyed

\* the example of the claim: an enemy of hp 50 is hit for 30 and keeps 20
C14_Witness ==
  \E j \in 1..Len(game.projectiles) : \E i \in TargetOf(game, j) :
    /\ Hits(game, j, i, FrameMs)
    /\ game.enemies[i].hp = 50 * HP /\ game.projectiles[j].damage = 30 * HP
    /\ Projectile_update(game, j, FrameMs).enemies[i].hp = 20 * HP

Turrets(g) == {sid \in DOMAIN g.structures : sid[3] = BUILDING_TURRET}

Fires(g, sid, dt) == Len(Turret_update(g, sid, dt).projectiles) > Len(g.projectiles)

\* the enemies a turret may shoot at: in the registry, not destroyed, in range
InRangeOf(g, sid) ==
  { i \in 1..Len(g.enemies) :
      /\ ~g.enemies[i].destroyed
      /\ distance_sq(Center(g.structures[sid])[1], Center(g.structures[sid])[2],
                     g.enemies[i].world_x, g.enemies[i].world_y)
            <= Turret_range(g.structures[sid]) * Turret_range(g.structures[sid]) }

\* C28: Turret.update creates a projectile only if the fire cooldown has
\* elapsed, the target is an enemy of the registry that is not destroyed and
\* is within range, and either the tier is below 3 and there is ammo (which
\* decreases by exactly 1) or the tier is 3 and is_powered is true; the ammo
\* stays within 0..TURRET_AMMO_CAPACITY and a tier 3 turret neither accepts
\* nor consumes ammo
C28_TurretFiresOnlyWhenSupplied ==
  \A sid \in Turrets(game) : \A dt \in TickLengths :
    LET s == game.structures[sid]
        after == Turret_update(game, sid, dt)
    IN /\ s.ammo \in 0..TURRET_AMMO_CAPACITY
       /\ s.tier = 3 => /\ ~try_accept_item(game, Ref(sid), RES_COPPER).ret
                        /\ after.structures[sid].ammo = s.ammo
       /\ ~Fires(game, sid, dt) => after.structures[sid].ammo = s.ammo
       /\ Fires(game, sid, dt) =>
            /\ s.fire_timer + dt >= Turret_fire_rate(s)
            /\ \E i \in InRangeOf(game, sid) :
                  /\ after.structures[sid].target_id = game.enemies[i].network_id
                  /\ after.projectiles[Len(after.projectiles)].target_enemy_id = game.enemies[i].network_id
            /\ \/ s.tier < 3 /\ s.ammo >= 1 /\ after.structures[sid].ammo = s.ammo - 1
               \/ s.tier = 3 /\ s.is_powered /\ after.structures[sid].ammo = s.ammo

\* a powered tier 3 turret without ammo fires at an enemy in range
C28_Witness ==
  \E sid \in Turrets(game) :
    /\ game.structures[sid].tier = 3 /\ game.structures[sid].is_powered /\ game.structures[sid].ammo = 0
    /\ Fires(game, sid, FrameMs)

\* a structure left the registry, the power lists and its cell, where the
\* patch of the terrain is back
Cleared(g, sid) ==
  /\ sid \notin Registry(g)
  /\ ~InSeq(g.order, sid) /\ ~InSeq(g.power_nodes, sid) /\ ~InSeq(g.power_consumers, sid)
  /\ get_structure_at(g, sid[1], sid[2]) =
       IF <<sid[1], sid[2]>> \in DOMAIN g.base_terrain
       THEN ResourcePatch(g.base_terrain[<<sid[1], sid[2]>>]) ELSE None

Doomed(g) == {sid \in Registry(g) : g.structures[sid].destroyed}

\* the structures, enemies and projectiles that the updates of a frame
\* leave destroyed
Struck(g, dt, rnd) == power_grid_timer(update_entities(update_players(g, dt), dt, rnd.pick), dt, rnd.pick)

\* C29: at the end of every tick of the host no registry holds an entity
\* whose destroyed flag is set: the structures destroyed in the tick have
\* left the registry, the power lists and their grid cell, where the
\* resource patch is restored if the terrain has one, and the destroyed
\* enemies and projectiles have left their registries
C29_NoDestroyedEntityAfterTick ==
  /\ \A sid \in Registry(game) : ~game.structures[sid].destroyed
  /\ \A i \in 1..Len(game.enemies) : ~game.enemies[i].destroyed
  /\ \A j \in 1..Len(game.projectiles) : ~game.projectiles[j].destroyed
  /\ \A rnd \in RandomDraws :
       \A sid \in Doomed(Struck(game, FrameMs, rnd)) : Cleared(Game_update(game, FrameMs, rnd), sid)

\* the frame that follows destroys a generator of the power lists, which
\* stands on no patch, and leaves its cell empty
C29_Witness ==
  \E rnd \in RandomDraws : \E sid \in Doomed(Struck(game, FrameMs, rnd)) :
    /\ sid[3] = BUILDING_COALGENERATOR /\ InSeq(game.power_nodes, sid)
    /\ get_structure_at(game, sid[1], sid[2]) = Ref(sid)
    /\ Cleared(Game_update(game, FrameMs, rnd), sid)
    /\ get_structure_at(Game_update(game, FrameMs, rnd), sid[1], sid[2]) = None

\* the occupants of the cells and the entries of the registry agree
GridMatchesRegistry(g) ==
  /\ \A c \in AllCells :
       LET occ == get_structure_at(g, c[1], c[2])
       IN occ # None /\ IsRef(occ) =>
            /\ occ.id \in Registry(g)
            /\ g.structures[occ.id].network_id = occ.id
            /\ g.structures[occ.id].grid_x = c[1] /\ g.structures[occ.id].grid_y = c[2]
  /\ \A sid \in Registry(g) :
       /\ g.structures[sid].network_id = sid
       /\ InGrid(g, g.structures[sid].grid_x, g.structures[sid].grid_y)
       /\ get_structure_at(g, g.structures[sid].grid_x, g.structures[sid].grid_y) = Ref(sid)
  /\ \A a \in Registry(g) : \A b \in Registry(g) \ {a} :
       <<g.structures[a].grid_x, g.structures[a].grid_y>> # <<g.structures[b].grid_x, g.structures[b].grid_y>>

\* C30: after any sequence of place, remove, upgrade and destroy on the
\* host, every occupant of a cell that is not terrain is in the registry
\* under its network id with the coordinates of the cell, every structure
\* of the registry occupies the cell at its own coordinates, and no two
\* entries of the registry share a network id or a cell
C30_GridMatchesRegistry ==
  /\ GridMatchesRegistry(game)
  /\ \A rnd \in RandomDraws : GridMatchesRegistry(Game_update(game, FrameMs, rnd))
  /\ \A c \in FightCells :
       /\ GridMatchesRegistry(action_remove_structure(game, 0, c[1], c[2]).game)
       /\ GridMatchesRegistry(action_upgrade_structure(game, 0, c[1], c[2]).game)
       /\ \A b \in FightTypes : GridMatchesRegistry(action_place_structure(game, 0, b, c[1], c[2], EAST, 0).game)

\* the player has put a Drill back on the patch whose Drill an enemy
\* destroyed, under the network id of the Drill that is gone
C30_Witness ==
  /\ last.op = "place" /\ last.ret
  /\ <<16, 2, BUILDING_DRILL>> \in Registry(game)
  /\ game.structures[<<16, 2, BUILDING_DRILL>>].hp = game.structures[<<16, 2, BUILDING_DRILL>>].max_hp
  /\ <<17, 2, BUILDING_COALGENERATOR>> \notin Registry(game)
  /\ <<17, 1, BUILDING_RECONSTRUCTOR>> \notin Registry(game)
  /\ game.base_terrain[<<16, 2>>] = RES_COAL /\ game.resources[RES_COPPER] > STARTING_COPPER

\* the world of a frame when its "Update Projectiles" loop begins
Aimed(g, dt, rnd) == update_enemies(update_structures(update_players(g, dt), g.order, dt, rnd.pick), 1, dt)

\* the world when the loop reaches the j-th projectile
RECURSIVE projectiles_before(_, _, _)
projectiles_before(g, j, dt) ==
  IF j <= 1 THEN g ELSE Projectile_update(projectiles_before(g, j - 1, dt), j - 1, dt)

\* the j-th projectile is live and the enemy it was aimed at is destroyed
\* or has left the registry
TargetGone(g, j) ==
  /\ ~g.projectiles[j].destroyed
  /\ \/ IndexOf(g.enemies, g.projectiles[j].target_enemy_id) = 0
     \/ g.enemies[IndexOf(g.enemies, g.projectiles[j].target_enemy_id)].destroyed

\* the enemies that the "Update Projectiles" loop of a frame destroys
Slain(before, after) == { i \in 1..Len(before.enemies) : ~before.enemies[i].destroyed /\ after.enemies[i].destroyed }

\* C31: the death of an enemy credits the resources of the host exactly
\* once: the projectiles of a frame credit ENEMY_BOUNTY for each enemy they
\* destroy and nothing else, an enemy that is destroyed is not damaged or
\* credited again by a projectile that reaches it in the same frame, and a
\* projectile whose target is destroyed or has left the registry damages no
\* enemy
C31_BountyOncePerEnemy ==
  \A rnd \in RandomDraws :
    /\ update_projectiles(Aimed(game, FrameMs, rnd), 1, FrameMs).resources =
         [Aimed(game, FrameMs, rnd).resources EXCEPT
            ![RES_COPPER] = @ + ENEMY_BOUNTY * Cardinality(Slain(Aimed(game, FrameMs, rnd),
                                                                 update_projectiles(Aimed(game, FrameMs, rnd), 1, FrameMs)))]
    /\ \A j \in 1..Len(Aimed(game, FrameMs, rnd).projectiles) :
         LET m == projectiles_before(Aimed(game, FrameMs, rnd), j, FrameMs)
             n == Projectile_update(m, j, FrameMs)
         IN /\ Len(n.enemies) = Len(m.enemies)
            /\ \A i \in 1..Len(m.enemies) : m.enemies[i].destroyed => n.enemies[i] = m.enemies[i]
            /\ TargetGone(m, j) \/ m.projectiles[j].destroyed => n.enemies = m.enemies /\ n.resources = m.resources
            /\ Cardinality(Slain(m, n)) <= 1
            /\ n.resources[RES_COPPER] = m.resources[RES_COPPER] + ENEMY_BOUNTY * Cardinality(Slain(m, n))

\* two projectiles reach the same enemy in one frame: the first destroys it
\* and the second, within the hit radius, finds it destroyed
C31_Witness ==
  \E rnd \in RandomDraws : \E j \in 1..Len(Aimed(game, FrameMs, rnd).projectiles) :
    LET m == projectiles_before(Aimed(game, FrameMs, rnd), j, FrameMs)
        ti == IndexOf(m.enemies, m.projectiles[j].target_enemy_id)
    IN /\ TargetGone(m, j) /\ ti # 0
       /\ ~Aimed(game, FrameMs, rnd).enemies[ti].destroyed
       /\ WithinHitRadius(Projectile_update(m, j, FrameMs).projectiles[j].world_x,
                           Projectile_update(m, j, FrameMs).projectiles[j].world_y, m.enemies[ti])
       /\ m.resources[RES_COPPER] = game.resources[RES_COPPER] + ENEMY_BOUNTY

\* the frames a projectile lives at most: its lifetime over the frame time
LifetimeFrames == PROJECTILE_LIFETIME \div FrameMs

\* the projectiles that are followed to their end
MaxFlightId == 6

InFlight(g, id) == \E j \in 1..Len(g.projectiles) : g.projectiles[j].network_id = id

\* C34: every projectile is destroyed and removed from the registry within
\* a bounded time: in the registry its lifetime is positive and at most
\* PROJECTILE_LIFETIME, every frame it stays in the registry takes the frame
\* time from its lifetime, and under frames that keep coming a projectile of
\* the registry leaves the registry, whether or not its target still exists
C34_ProjectilesExpire ==
  /\ [](\A j \in 1..Len(game.projectiles) :
          /\ game.projectiles[j].lifetime > 0 /\ game.projectiles[j].lifetime <= PROJECTILE_LIFETIME
          /\ ~game.projectiles[j].destroyed)
  /\ [][ticks' = ticks + 1 =>
          \A j \in 1..Len(game.projectiles) : \A k \in 1..Len(game'.projectiles) :
            game'.projectiles[k].network_id = game.projectiles[j].network_id =>
              game'.projectiles[k].lifetime = game.projectiles[j].lifetime - FrameMs]_vars
  /\ \A id \in 1..MaxFlightId :
       (InFlight(game, id) /\ ticks <= MaxFightTicks - LifetimeFrames) ~> ~InFlight(game, id)

\* a projectile whose target has left the registry is in its last frame:
\* the next frame removes it
C34_Witness ==
  \E j \in 1..Len(game.projectiles) :
    /\ game.projectiles[j].network_id <= MaxFlightId
    /\ IndexOf(game.enemies, game.projectiles[j].target_enemy_id) = 0
    /\ game.projectiles[j].lifetime <= FrameMs
    /\ \A rnd \in RandomDraws : ~InFlight(Game_update(game, FrameMs, rnd), game.projectiles[j].network_id)

\* ------------------------------------------------------------------------
\* Waves and the end of the game.  The worlds are sessions that have run
\* to a change of wave, and saved games of the last waves: load_data with
\* the wave fields, the Core's hp and the enemies of a late stage of a game
\* ------------------------------------------------------------------------
CooldownFrames == 297
ClearingFrames == 685
SecondWaveFrames == 985
MaxWaveTicks == 12
LastHit == 20
SiegeTimer == 20000

\* an enemy of the last wave within attack range of the Core
Besieger ==
  [ net_id |-> 1, x |-> Center(Core(CoreCell(GridW, GridH)[1], CoreCell(GridW, GridH)[2]))[1] + 20 * PX,
    y |-> Center(Core(CoreCell(GridW, GridH)[1], CoreCell(GridW, GridH)[2]))[2],
    hp |-> ENEMY_START_HP * HP, max_hp |-> ENEMY_START_HP * HP ]

\* an enemy far from every structure
Straggler == [Besieger EXCEPT !.x = 20 * PX, !.y = 80 * PX]

WaveSave(wave_number, in_wave, wave_timer, core_hp, enemies, game_over) ==
  [get_full_snapshot(NewGame("host", MainTerrain)) EXCEPT
     !.wave_number = wave_number, !.in_wave = in_wave, !.wave_timer = wave_timer, !.core_hp = core_hp,
     !.enemies = enemies, !.next_enemy_id = Len(enemies), !.game_over = game_over]

\* saves of the last cooldown, of the last wave and after it, and of a
\* siege of the Core in the first wave; the last is a save file that is
\* marked game_over while its Core is listed among the structures
WaveSaves ==
  { WaveSave(MAX_WAVES - 1, FALSE, 2 * FrameMs, CORE_HP * HP, << >>, FALSE),
    WaveSave(MAX_WAVES - 1, FALSE, 2 * FrameMs, LastHit * HP, << Besieger >>, FALSE),
    WaveSave(MAX_WAVES, TRUE, 3 * FrameMs, CORE_HP * HP, << >>, FALSE),
    WaveSave(MAX_WAVES, TRUE, 3 * FrameMs, CORE_HP * HP, << Straggler >>, FALSE),
    WaveSave(MAX_WAVES, FALSE, FrameMs, CORE_HP * HP, << Straggler >>, FALSE),
    WaveSave(MAX_WAVES, TRUE, 3 * FrameMs, LastHit * HP, << Besieger >>, FALSE),
    WaveSave(1, TRUE, SiegeTimer, LastHit * HP, << Besieger >>, FALSE),
    WaveSave(1, TRUE, MaxWaveTicks * FrameMs, LastHit * HP, << Besieger >>, FALSE),
    WaveSave(1, TRUE, SiegeTimer, LastHit * HP, << Besieger >>, TRUE) }

\* the sessions: an idle player at the end of the first cooldown, and the
\* defence of DefencePlan when its Turret clears the first wave and at the
\* end of the cooldown that follows
WaveSessions ==
  { Session(<< >>, CooldownFrames), Session(DefencePlan, ClearingFrames), Session(DefencePlan, SecondWaveFrames) }

WaveWorlds == WaveSessions \cup {LoadGame("host", save, 0) : save \in WaveSaves}

InitWaves ==
  /\ game \in WaveWorlds
  /\ Idle

WaveTick == TickUpTo(MaxWaveTicks)

NextWaves == WaveTick

SpecWaves == InitWaves /\ [][NextWaves]_vars

\* the main loop calls Game.update every frame
WaveFrameElapses == ticks < MaxWaveTicks /\ ticks' = ticks + 1

SpecWavesLive == SpecWaves /\ WF_ticks(WaveFrameElapses)

\* the game is in no terminal state
Active(g) == ~g.game_over /\ ~g.game_won

\* the cooldown of g runs out in a frame of length dt and a wave is left
WaveDue(g, dt) == Active(g) /\ ~g.in_wave /\ g.wave_timer - dt <= 0 /\ g.wave_number < g.max_waves

Spawned(before, after) == EnemyIds(after) \ EnemyIds(before)

\* C15: a tick of an active game that is in no wave, whose wave timer runs
\* out and whose wave_number is below max_waves starts a wave: in_wave is
\* true, wave_number is one more, the quota is 10 + 5 x wave_number, the
\* wave timer is WAVE_DURATION, the enemy hp is ENEMY_START_HP +
\* (wave_number - 1) x ENEMY_HP_INCREASE_PER_WAVE, and the spawned count
\* starts again from 0: it counts the enemies of the new wave that this
\* tick has spawned.  No wave starts when wave_number = max_waves
C15_CooldownToInWave ==
  \A dt \in TickLengths : \A rnd \in RandomDraws :
    LET after == Game_update(game, dt, rnd)
    IN /\ WaveDue(game, dt) =>
            /\ after.in_wave
            /\ after.wave_number = game.wave_number + 1
            /\ after.enemies_to_spawn_this_wave = 10 + 5 * after.wave_number
            /\ after.wave_timer = WAVE_DURATION * MS
            /\ after.current_enemy_hp = (ENEMY_START_HP + (after.wave_number - 1) * ENEMY_HP_INCREASE_PER_WAVE) * HP
            /\ after.enemies_spawned_this_wave = Cardinality(Spawned(game, after))
            /\ after.enemies_spawned_this_wave <= 1
            /\ \A i \in 1..Len(after.enemies) :
                 after.enemies[i].network_id \in Spawned(game, after)
                   => after.enemies[i].max_hp = after.current_enemy_hp
       /\ (~game.in_wave /\ game.wave_number >= game.max_waves)
            => (~after.in_wave /\ after.wave_number = game.wave_number /\ Spawned(game, after) = {})

\* the second wave has started in this tick, after a wave of 15 enemies
C15_Witness ==
  /\ last.op = "tick" /\ game.in_wave /\ game.wave_number = 2 /\ game.wave_timer = WAVE_DURATION * MS
  /\ game.enemies_to_spawn_this_wave = 20 /\ game.enemies_spawned_this_wave = 1
  /\ game.current_enemy_hp = (ENEMY_START_HP + ENEMY_HP_INCREASE_PER_WAVE) * HP

\* the wave timer of g runs out in a frame of length dt, or the quota of
\* the wave has been spawned and the frame leaves no enemy alive
WaveOver(g, dt, after) ==
  /\ g.in_wave
  /\ \/ g.wave_timer - dt <= 0
     \/ after.enemies_spawned_this_wave >= after.enemies_to_spawn_this_wave /\ after.enemies = << >>

\* C16: a tick of an active game ends the wave, in_wave becoming false and
\* the wave timer WAVE_COOLDOWN, exactly when in_wave is true and the wave
\* timer has run out or the quota has been spawned and no enemy is alive;
\* in no other tick does in_wave change from true to false
C16_InWaveToCooldown ==
  \A dt \in TickLengths : \A rnd \in RandomDraws :
    LET after == Game_update(game, dt, rnd)
    IN /\ (Active(game) /\ WaveOver(game, dt, after))
            => (~after.in_wave /\ after.wave_timer = WAVE_COOLDOWN * MS)
       /\ (game.in_wave /\ ~after.in_wave)
            => (Active(game) /\ WaveOver(game, dt, after) /\ after.wave_timer = WAVE_COOLDOWN * MS)

\* the Turret has shot the last enemy of the first wave: the wave is
\* over before its timer runs out
C16_Witness ==
  /\ last.op = "tick" /\ ~game.in_wave /\ game.wave_number = 1 /\ game.wave_timer = WAVE_COOLDOWN * MS
  /\ game.enemies_spawned_this_wave = 15 /\ game.enemies = << >>

\* C17: game_won becomes true only in a tick that leaves wave_number >=
\* max_waves, in_wave false, no enemy and game_over false, and a tick of a
\* game that is won leaves it won
C17_WonOnlyAfterLastWave ==
  \A dt \in TickLengths : \A rnd \in RandomDraws :
    LET after == Game_update(game, dt, rnd)
    IN /\ (~game.game_won /\ after.game_won)
            => /\ after.wave_number >= after.max_waves /\ ~after.in_wave
               /\ after.enemies = << >> /\ ~after.game_over
       /\ game.game_won => after.game_won

\* the last wave is over, no enemy is left and the game is won, and has
\* been for a tick
C17_Witness ==
  /\ last.op = "tick" /\ ticks >= 2 /\ game.game_won
  /\ game.wave_number = MAX_WAVES /\ game.wave_timer = WAVE_COOLDOWN * MS

\* the Core stands in the world with hp left
CoreStands(g) == g.core # None /\ g.core.k = "ref" /\ CoreObj(g).hp > 0 /\ ~CoreObj(g).destroyed

\* C18: the tick in which the Core's hp reaches 0 sets game_over, a tick
\* of a game that is over leaves it over, so that the game ends once, and
\* a Core standing in a game that is over takes no damage
C18_CoreLostEndsGame ==
  \A dt \in TickLengths : \A rnd \in RandomDraws :
    LET after == Game_update(game, dt, rnd)
    IN /\ (CoreStands(game) /\ ~CoreStands(after)) => after.game_over
       /\ game.game_over => after.game_over
       /\ (game.game_over /\ CoreStands(game))
            => /\ CoreStands(after) /\ CoreObj(after).hp >= CoreObj(game).hp
               /\ \A amount \in {1, ENEMY_DAMAGE * HP, CoreObj(game).hp} :
                    take_damage(game, game.core.id, amount) = [game |-> game, ret |-> FALSE]

\* the besieger has taken the last hp of the Core and the game is over
C18_Witness ==
  /\ last.op = "tick" /\ game.game_over /\ game.core # None /\ game.core.k = "gone"
  /\ CoreObj(game).hp = 0

\* a besieged Core in a game that is over
C18_SparedCore == ticks >= 10 /\ game.game_over /\ CoreStands(game) /\ game.enemies # << >>

\* C19: a tick of a game that is over or won runs no wave logic: it leaves
\* wave_number, in_wave, the wave timer, the quota and the spawned count as
\* they are and spawns no enemy
C19_NoWavesAfterTheEnd ==
  \A dt \in TickLengths : \A rnd \in RandomDraws :
    LET after == Game_update(game, dt, rnd)
    IN ~Active(game) =>
         /\ after.wave_number = game.wave_number /\ after.in_wave = game.in_wave
         /\ after.wave_timer = game.wave_timer
         /\ after.enemies_to_spawn_this_wave = game.enemies_to_spawn_this_wave
         /\ after.enemies_spawned_this_wave = game.enemies_spawned_this_wave
         /\ Spawned(game, after) = {}

\* the Core fell during the last wave, with enemies left to spawn, and the
\* wave timer has stopped since
C19_Witness ==
  /\ last.op = "tick" /\ game.game_over /\ game.in_wave /\ game.wave_number = MAX_WAVES
  /\ game.enemies_spawned_this_wave < game.enemies_to_spawn_this_wave
  /\ game.wave_timer > WAVE_DURATION * MS - (ticks - 2) * FrameMs

\* the wave timer of g runs out within the frames that are left
TimerRunsOut(g) == g.wave_timer <= (MaxWaveTicks - ticks) * FrameMs

\* C35: every wave that starts ends, and the next one starts: while no
\* terminal state is set the timer of a wave is positive and at most
\* WAVE_DURATION and every frame takes the frame time from it, so that under
\* frames that keep coming in_wave becomes false within WAVE_DURATION, killed
\* enemies or not, unless the game is over or won before; and in a cooldown
\* with wave_number < max_waves the next wave starts unless the game ends
C35_WavesEndAndFollow ==
  /\ [](Active(game) /\ game.in_wave => game.wave_timer > 0 /\ game.wave_timer <= WAVE_DURATION * MS)
  /\ [][(ticks' = ticks + 1 /\ Active(game) /\ game.in_wave /\ game'.in_wave)
          => game'.wave_timer = game.wave_timer - FrameMs]_vars
  /\ (Active(game) /\ game.in_wave /\ TimerRunsOut(game)) ~> (~game.in_wave \/ ~Active(game))
  /\ (Active(game) /\ ~game.in_wave /\ game.wave_number < game.max_waves /\ TimerRunsOut(game))
       ~> (game.in_wave \/ ~Active(game))

\* the timer of the last wave has run out with an enemy alive: the wave
\* is over and the game goes on
C35_Witness ==
  /\ last.op = "tick" /\ Active(game) /\ ~game.in_wave /\ game.wave_timer = WAVE_COOLDOWN * MS
  /\ game.enemies # << >> /\ game.wave_number = MAX_WAVES

\* the statement without the terminal states: a wave whose Core falls
\* before its timer runs out stays in_wave for ever
C35_EveryWaveEnds ==
  (Active(game) /\ game.in_wave /\ TimerRunsOut(game)) ~> ~game.in_wave

\* C39: wave_number is within 0..max_waves and a tick leaves it as it is or
\* raises it by 1, and raises it only when it starts a wave from a cooldown;
\* the spawned count never exceeds the quota of the wave, a tick spawns at
\* most one enemy and counts it, and it spawns one only in a wave: in a
\* wave that was in progress or in the wave that this tick has started
C39_WaveCountAndQuota ==
  /\ game.wave_number \in 0..game.max_waves
  /\ game.enemies_spawned_this_wave \in 0..game.enemies_to_spawn_this_wave
  /\ \A dt \in TickLengths : \A rnd \in RandomDraws :
       LET after == Game_update(game, dt, rnd)
           started == after.wave_number = game.wave_number + 1
       IN /\ after.wave_number \in {game.wave_number, game.wave_number + 1}
          /\ started <=> WaveDue(game, dt)
          /\ started => (~game.in_wave /\ after.in_wave)
          /\ Cardinality(Spawned(game, after)) <= 1
          /\ after.enemies_spawned_this_wave
               = (IF started THEN 0 ELSE game.enemies_spawned_this_wave) + Cardinality(Spawned(game, after))
          /\ after.enemies_spawned_this_wave <= after.enemies_to_spawn_this_wave
          /\ Spawned(game, after) # {} => (game.in_wave \/ started)

\* the quota of the first wave is spawned and enemies of it are alive: the
\* wave goes on and the next frame spawns no more
C39_Witness ==
  /\ last.op = "tick" /\ game.in_wave /\ game.wave_number = 1
  /\ game.enemies_spawned_this_wave = 10 + 5 * game.wave_number
  /\ game.enemies_spawned_this_wave = game.enemies_to_spawn_this_wave
  /\ game.enemies # << >>
  /\ \A rnd \in RandomDraws : LET after == Game_update(game, FrameMs, rnd)
                               IN after.in_wave /\ Spawned(game, after) = {}

\* the world of a frame when it comes to the end conditions
BeforeEnd(g, dt, rnd) ==
  wave_management(cleanup_destroyed(power_grid_timer(update_entities(update_players(g, dt), dt, rnd.pick), dt, rnd.pick)),
                  dt, rnd)

\* C38: game_over and game_won are never both true: a tick of a game that
\* is won finds no enemy and leaves the Core standing with the hp it had, a
\* tick in which the Core falls leaves the game not won, and the end
\* conditions of a frame that has destroyed the Core set game_over and do
\* not take the win, whatever the waves and the enemies are
C38_NeverOverAndWon ==
  /\ ~(game.game_over /\ game.game_won)
  /\ \A dt \in TickLengths : \A rnd \in RandomDraws :
       LET after == Game_update(game, dt, rnd)
           fallen == game_end_conditions(BeforeEnd(game, dt, rnd), TRUE)
       IN /\ game.game_won => /\ game.enemies = << >> /\ after.enemies = << >>
                               /\ CoreStands(game) /\ CoreStands(after)
                               /\ CoreObj(after).hp = CoreObj(game).hp
          /\ (CoreStands(game) /\ ~CoreStands(after)) => (after.game_over /\ ~after.game_won)
          /\ ~game.game_won => (fallen.game_over /\ ~fallen.game_won)

\* the Core has fallen in the cooldown after the last wave, to an enemy
\* that outlived the wave: the game is over and not won
C38_Witness ==
  /\ last.op = "tick" /\ game.game_over /\ ~game.game_won
  /\ game.core # None /\ game.core.k = "gone"
  /\ game.wave_number = MAX_WAVES /\ ~game.in_wave /\ game.wave_timer < WAVE_COOLDOWN * MS

\* ------------------------------------------------------------------------
\* The Server of a host and the connections of its clients.  A connection
\* is a stream of frames the client has sent and the Server has not read
\* yet; every input carries the serial number of its place in the stream.
\*   clients        socket -> player id, for the players that have joined
\*   sockets_list   the client sockets select watches
\*   queued_inputs  the inputs read and not yet applied by the main loop
\*   streams        socket -> the frames under way
\*   backlog        the connections made and not yet accepted
\*   broken         the sockets on which sendall raises
\*   closed         the sockets the Server has closed
\*   outbox         socket -> the messages sent on it
\*   lock           game_lock is held by the main loop
\*   hung           the main loop waits for game_lock while holding it
\*   sent           socket -> the number of inputs the client has sent
\*   garbled        the sockets that delivered an undecodable frame
\*   failed         the players of the sockets on which a sendall raised
\*   applied        the inputs the main loop has executed, in order
\*   crashed        an exception has left the main loop
\* ------------------------------------------------------------------------
MaxSends == 2
MaxPasses == 4
MaxLinkSteps == 2
MaxLinkSends == 1
MaxLinkPasses == 3
\* the players that leave room for two more, the host counted
CrowdSize == MAX_PLAYERS - 2

SocketsList == << "a", "b" >>

Connections == {SocketsList[k] : k \in 1..Len(SocketsList)}

\* the sockets of the players that joined before the connections under study
CrowdPool == << "c1", "c2", "c3", "c4", "c5", "c6", "c7", "c8", "c9", "c10", "c11", "c12" >>

Crowd == SubSeq(CrowdPool, 1, CrowdSize)

AllSockets == Connections \cup {Crowd[k] : k \in 1..CrowdSize}

NoSocket == "none"

JoinRequest == [type |-> "join_request", name |-> "Guest", color_idx |-> 1]

\* frames receive_message cannot decode: a header that is no number, a
\* body that is no JSON
UndecodableFrames == { [type |-> "bad_header"], [type |-> "bad_json"] }

\* Server.__init__ and start
ListeningServer ==
  [ k |-> "server", clients |-> << >>, sockets_list |-> << >>, next_player_id |-> 1,
    queued_inputs |-> << >>, streams |-> [c \in AllSockets |-> << >>], backlog |-> << >>,
    broken |-> {}, closed |-> {}, outbox |-> [c \in AllSockets |-> {}],
    lock |-> FALSE, hung |-> FALSE, crashed |-> FALSE,
    sent |-> [c \in Connections |-> 0], garbled |-> {}, failed |-> {}, applied |-> << >> ]

\* the Server with the clients connected and their join requests under way
StartedServer ==
  [ListeningServer EXCEPT !.sockets_list = SocketsList,
                          !.streams = [c \in AllSockets |-> IF c \in Connections THEN << JoinRequest >> ELSE << >>]]

\* the payloads of the inputs a client sends: a move, and intents on the
\* tile east of the Core
NetPayloads ==
  { [action |-> "move", data |-> [x |-> 1, y |-> 0]],
    [action |-> "place", data |-> [type |-> BUILDING_WALL, gx |-> CoreCell(GridW, GridH)[1] + 1,
                                   gy |-> CoreCell(GridW, GridH)[2], orient |-> EAST]],
    [action |-> "remove", data |-> [gx |-> CoreCell(GridW, GridH)[1] + 1, gy |-> CoreCell(GridW, GridH)[2]]],
    [action |-> "upgrade", data |-> [gx |-> CoreCell(GridW, GridH)[1] + 1, gy |-> CoreCell(GridW, GridH)[2]]] }

\* intents whose data lacks a field the main loop reads with act_data[...]
MalformedPayloads ==
  { [action |-> "place", data |-> [gx |-> CoreCell(GridW, GridH)[1] + 1, gy |-> CoreCell(GridW, GridH)[2],
                                   orient |-> EAST]],
    [action |-> "remove", data |-> [gx |-> CoreCell(GridW, GridH)[1] + 1]],
    [action |-> "upgrade", data |-> [gy |-> CoreCell(GridW, GridH)[2]]] }

\* the keys of act_data that the main loop subscripts for an action
RequiredFields(act_type) ==
  CASE act_type = "place" -> {"type", "gx", "gy", "orient"}
    [] act_type \in {"remove", "upgrade"} -> {"gx", "gy"}
    [] OTHER -> {}

\* Client.send_message of an input: sendall puts it on the connection
Client_send_message(n, c, payload) ==
  [n EXCEPT !.streams[c] = Append(@, [type |-> "input", payload |-> payload, serial |-> n.sent[c] + 1]),
            !.sent[c] = @ + 1]

\* a message read off the head of a stream where the newest one is taken
receive_message_newest(stream) ==
  IF stream = << >> THEN [message |-> None, rest |-> stream]
  ELSE [message |-> stream[Len(stream)], rest |-> SubSeq(stream, 1, Len(stream) - 1)]

\* a frame that cannot be decoded is handed on as it came
receive_message_lenient(stream) ==
  IF stream = << >> THEN [message |-> None, rest |-> stream]
  ELSE [message |-> Head(stream), rest |-> Tail(stream)]

\* receive_message: the header and the body of the next frame of the stream;
\* None when recv returns nothing (the peer is gone) and when int() or
\* json.loads raises
receive_message(stream) ==
  IF stream = << >> THEN [message |-> None, rest |-> stream]
  ELSE IF Head(stream) \in UndecodableFrames THEN [message |-> None, rest |-> Tail(stream)]
  ELSE [message |-> Head(stream), rest |-> Tail(stream)]

\* list(self.clients.keys()): the sockets in the order in which they joined
RECURSIVE keys_in_order(_, _)
keys_in_order(clients, left) ==
  IF left = {} THEN << >>
  ELSE << CHOOSE c \in left : \A d \in left : clients[c] <= clients[d] >>
       \o keys_in_order(clients, left \ {CHOOSE c \in left : \A d \in left : clients[c] <= clients[d]})

\* sock.sendall raises on a broken and on a closed socket
SendFails(n, c) == c \in n.broken \/ c \in n.closed

sendall(ng, c, msg) == [ng EXCEPT !.net.outbox[c] = @ \cup {msg}]

\* the except branch of a sendall: the socket is noted and disconnected
send_failed(ng, c) ==
  IF c \in DOMAIN ng.net.clients THEN [ng EXCEPT !.net.failed = @ \cup {ng.net.clients[c]}] ELSE ng

RECURSIVE broadcast_to(_, _, _, _)
RECURSIVE disconnect_client(_, _)

\* Server.broadcast_message
broadcast_message(ng, msg, exclude_socket) ==
  broadcast_to(ng, keys_in_order(ng.net.clients, DOMAIN ng.net.clients), msg, exclude_socket)

\* Server._disconnect_client.  "with self.game_lock" on a threading.Lock the
\* calling thread already holds never returns
disconnect_client(ng, c) ==
  IF ng.net.hung THEN ng
  ELSE IF c \notin DOMAIN ng.net.clients
  THEN [ng EXCEPT !.net.sockets_list = Remove(@, c), !.net.closed = @ \cup {c}]
  ELSE IF ng.net.clients[c] \in DOMAIN ng.game.players /\ ng.net.lock
  THEN [ng EXCEPT !.net.sockets_list = Remove(@, c), !.net.closed = @ \cup {c},
                  !.net.clients = Without(@, c), !.net.hung = TRUE]
  ELSE broadcast_message([ng EXCEPT !.net.sockets_list = Remove(@, c), !.net.closed = @ \cup {c},
                                    !.net.clients = Without(@, c),
                                    !.game.players = Without(@, ng.net.clients[c])],
                         [type |-> "player_leave", player_id |-> ng.net.clients[c]], NoSocket)

broadcast_to(ng, socks, msg, exclude_socket) ==
  IF socks = << >> \/ ng.net.hung THEN ng
  ELSE broadcast_to(IF Head(socks) = exclude_socket THEN ng
                    ELSE IF SendFails(ng.net, Head(socks)) THEN disconnect_client(send_failed(ng, Head(socks)), Head(socks))
                    ELSE sendall(ng, Head(socks), msg),
                    Tail(socks), msg, exclude_socket)

\* Server._handle_new_connection
handle_new_connection(ng, c) ==
  IF Cardinality(DOMAIN ng.net.clients) >= MAX_PLAYERS - 1
  THEN [ng EXCEPT !.net.outbox[c] = IF SendFails(ng.net, c) THEN @ ELSE @ \cup {[type |-> "error"]},
                  !.net.closed = @ \cup {c}]
  ELSE [ng EXCEPT !.net.sockets_list = Append(@, c)]

\* the place a joining player starts from
join_start(g, pid) ==
  LET at == IF g.core # None
            THEN grid_to_world_center(CoreObj(g).grid_x, CoreObj(g).grid_y - (1 + pid))
            ELSE << g.map_width_px \div 2, g.map_height_px \div 2 >>
  IN << Max(TILE_SIZE * PX, Min(at[1], g.map_width_px - TILE_SIZE * PX)),
        Max(TILE_SIZE * PX, Min(at[2], g.map_height_px - TILE_SIZE * PX)) >>

\* the join_request branch up to "game.players[pid] = new_player_obj"
join_add(ng, c, message) ==
  [ net |-> [ng.net EXCEPT !.clients = With(@, c, ng.net.next_player_id), !.next_player_id = @ + 1],
    game |-> [ng.game EXCEPT !.players =
                With(@, ng.net.next_player_id,
                     Player(join_start(ng.game, ng.net.next_player_id)[1],
                            join_start(ng.game, ng.net.next_player_id)[2],
                            ng.net.next_player_id, message.name, message.color_idx))] ]

\* the join_request branch from "Send ID" on, for the player pid
join_answer(ng, c, pid) ==
  IF SendFails(ng.net, c) THEN disconnect_client(send_failed(ng, c), c)
  ELSE broadcast_message(sendall(sendall(ng, c, [type |-> "assign_id", player_id |-> pid]),
                                 c, [type |-> "initial_state"]),
                         [type |-> "player_join", player_id |-> pid], c)

\* Server._process_client_message on the pair ng = [net, game].  An input
\* of a socket that has not joined raises in the handler, and Server.update
\* disconnects the socket
process_client_message(ng, c, message) ==
  IF message.type = "join_request"
  THEN join_answer(join_add(ng, c, message), c, ng.net.next_player_id)
  ELSE IF message.type = "input"
  THEN IF c \in DOMAIN ng.net.clients
       THEN [ng EXCEPT !.net.queued_inputs =
               Append(@, [player_id |-> ng.net.clients[c], payload |-> message.payload,
                          conn |-> c, serial |-> message.serial])]
       ELSE disconnect_client(ng, c)
  ELSE ng

\* the body of the loop over read_sockets for a client socket
server_read(ng, c, received) ==
  IF received.message = None
  THEN disconnect_client([ng EXCEPT !.net.streams[c] = received.rest], c)
  ELSE process_client_message([ng EXCEPT !.net.streams[c] = received.rest], c, received.message)

\* the body of the loop over read_sockets for the listening socket
server_accept(ng) ==
  IF ng.net.backlog = << >> THEN ng
  ELSE handle_new_connection([ng EXCEPT !.net.backlog = Tail(@)], Head(ng.net.backlog))

\* Server.update: one message is read from every socket select reports
RECURSIVE Server_update(_, _, _)
Server_update(ng, sockets, read_sockets) ==
  IF sockets = << >> THEN ng
  ELSE Server_update(IF Head(sockets) = NoSocket
                     THEN server_accept(ng)
                     ELSE IF Head(sockets) \in read_sockets /\ InSeq(ng.net.sockets_list, Head(sockets))
                     THEN server_read(ng, Head(sockets), receive_message(ng.net.streams[Head(sockets)]))
                     ELSE ng,
                     Tail(sockets), read_sockets)

\* the broadcast at the end of an action the world accepted
action_broadcast(ng, r, msg_type) ==
  IF r.ret THEN broadcast_message([ng EXCEPT !.game = r.game], [type |-> msg_type], NoSocket)
  ELSE [ng EXCEPT !.game = r.game]

\* "Process client inputs", for one input
apply_input(ng, net_input) ==
  LET pid == net_input.player_id
      act_type == net_input.payload.action
      act_data == net_input.payload.data
  IN IF ng.net.hung \/ ng.net.crashed \/ pid \notin DOMAIN ng.game.players THEN ng
     ELSE IF ~(RequiredFields(act_type) \subseteq DOMAIN act_data)
     \* act_data[...] raises KeyError, which nothing in main() catches
     THEN [ng EXCEPT !.net.crashed = TRUE]
     ELSE CASE act_type = "move" ->
                 [ng EXCEPT !.game.players[pid].move_x = act_data.x, !.game.players[pid].move_y = act_data.y]
            [] act_type = "place" ->
                 action_broadcast(ng, action_place_structure(ng.game, pid, act_data.type, act_data.gx,
                                                             act_data.gy, act_data.orient, 0), "structure_add")
            [] act_type = "remove" ->
                 action_broadcast(ng, action_remove_structure(ng.game, pid, act_data.gx, act_data.gy),
                                  "structure_remove")
            [] act_type = "upgrade" ->
                 action_broadcast(ng, action_upgrade_structure(ng.game, pid, act_data.gx, act_data.gy),
                                  "structure_update")
            [] OTHER -> ng

RECURSIVE apply_inputs(_, _)
apply_inputs(ng, queued_inputs) ==
  IF queued_inputs = << >> THEN ng
  ELSE apply_inputs(apply_input(ng, Head(queued_inputs)), Tail(queued_inputs))

\* the inputs of the queue that found their player, as <<socket, serial>>
Executed(g, queued_inputs) ==
  LET found == SelectSeq(queued_inputs, LAMBDA net_input : net_input.player_id \in DOMAIN g.players)
  IN [k \in 1..Len(found) |-> << found[k].conn, found[k].serial >>]

\* Server.get_queued_inputs and the record of what the loop executes
get_queued_inputs(ng) ==
  [ng EXCEPT !.net.queued_inputs = << >>, !.net.applied = @ \o Executed(ng.game, ng.net.queued_inputs)]

\* "with server_instance.game_lock:" around the inputs and Game.update; the
\* worlds of these sessions broadcast nothing from Game.update
locked_block(ng, queued_inputs, rnd) ==
  LET held == apply_inputs([ng EXCEPT !.net.lock = TRUE], queued_inputs)
  IN IF held.net.hung \/ held.net.crashed THEN held
     ELSE [net |-> [held.net EXCEPT !.lock = FALSE], game |-> Game_update(held.game, FrameMs, rnd)]

\* "Broadcast state periodically", at the default interval
state_broadcast(ng, dt) ==
  IF dt >= DEFAULT_NETWORK_UPDATE_INTERVAL /\ ~ng.net.hung /\ ~ng.net.crashed THEN broadcast_message(ng, [type |-> "state_update"], NoSocket) ELSE ng

InitNet ==
  /\ game = NewGame("host", MainTerrain) /\ net = StartedServer
  /\ cgame = NewClient
  /\ last = [op |-> "init", ret |-> TRUE, line |-> 0]
  /\ steps = 0 /\ ticks = 0 /\ snaps = 0 /\ cticks = 0

\* a client that has joined sends an input
ClientSend ==
  \E c \in Connections \cap DOMAIN net.clients, payload \in NetPayloads :
    /\ net.sent[c] < MaxSends
    /\ net' = Client_send_message(net, c, payload)
    /\ last' = [op |-> "send", ret |-> TRUE, line |-> 0]
    /\ UNCHANGED <<game, cgame, steps, ticks, snaps, cticks>>

\* the sockets select reports: a frame has arrived or the peer is gone
Readable(n) ==
  {c \in Connections : InSeq(n.sockets_list, c) /\ (n.streams[c] # << >> \/ c \in n.broken)}

hosting_pass(ng, rnd) ==
  /\ game' = state_broadcast(locked_block(get_queued_inputs(ng), ng.net.queued_inputs, rnd), FrameMs).game
  /\ net' = state_broadcast(locked_block(get_queued_inputs(ng), ng.net.queued_inputs, rnd), FrameMs).net

\* one pass of the main loop in STATE_HOSTING: Server.update, the queued
\* inputs, Game.update, the state broadcast
HostingPass ==
  /\ ticks < MaxPasses /\ ~net.hung /\ ~net.crashed
  /\ \E read_sockets \in SUBSET Readable(net), rnd \in RandomDraws :
       hosting_pass(Server_update([net |-> net, game |-> game], << NoSocket >> \o net.sockets_list, read_sockets),
                    rnd)
  /\ last' = [op |-> "pass", ret |-> TRUE, line |-> 0]
  /\ ticks' = ticks + 1
  /\ UNCHANGED <<cgame, steps, snaps, cticks>>

NextNet == ClientSend \/ HostingPass

SpecNet == InitNet /\ [][NextNet]_vars

\* C20: the inputs of one connection are executed in the order in which the
\* connection delivered them: of two executed inputs of the same socket the
\* one executed first is the earlier one of the stream, over all passes and
\* whatever the other clients send in between
C20_InputsInOrder ==
  \A i, j \in 1..Len(net.applied) :
    (i < j /\ net.applied[i][1] = net.applied[j][1]) => net.applied[i][2] < net.applied[j][2]

\* two inputs of one connection were executed with an input of the other
\* connection between them
C20_Witness ==
  \E i, j, k \in 1..Len(net.applied) :
    /\ i < j /\ j < k
    /\ net.applied[i][1] = net.applied[k][1] /\ net.applied[j][1] # net.applied[i][1]

\* ------------------------------------------------------------------------
\* Connections that come, break and send what cannot be decoded
\* ------------------------------------------------------------------------

\* the Server after the sockets of socks connected and joined one by one
RECURSIVE Joined(_, _)
Joined(ng, socks) ==
  IF socks = << >> THEN ng
  ELSE Joined(server_read(handle_new_connection(ng, Head(socks)), Head(socks),
                          receive_message(<< JoinRequest >>)),
              Tail(socks))

\* the host with the players of Crowd in its world
CrowdedServer == Joined([net |-> ListeningServer, game |-> NewGame("host", MainTerrain)], Crowd)

InitLink ==
  /\ game = CrowdedServer.game /\ net = CrowdedServer.net
  /\ cgame = NewClient
  /\ last = [op |-> "init", ret |-> TRUE, line |-> 0]
  /\ steps = 0 /\ ticks = 0 /\ snaps = 0 /\ cticks = 0

Connected(n, c) == InSeq(n.sockets_list, c) \/ InSeq(n.backlog, c) \/ c \in n.closed

\* Client.connect: the connection is made and the join request sent
ClientConnect ==
  \E c \in Connections :
    /\ ~Connected(net, c)
    /\ net' = [net EXCEPT !.backlog = Append(@, c), !.streams[c] = << JoinRequest >>]
    /\ last' = [op |-> "connect", ret |-> TRUE, line |-> 0]
    /\ UNCHANGED <<game, cgame, steps, ticks, snaps, cticks>>

\* a peer that has joined sends a frame that cannot be decoded
SendUndecodable ==
  \E c \in Connections \cap DOMAIN net.clients, frame \in UndecodableFrames :
    /\ steps < MaxLinkSteps
    /\ net' = [net EXCEPT !.streams[c] = Append(@, frame), !.garbled = @ \cup {c}]
    /\ last' = [op |-> "garble", ret |-> TRUE, line |-> 0]
    /\ steps' = steps + 1
    /\ UNCHANGED <<game, cgame, ticks, snaps, cticks>>

\* the peer of a connection goes away: from now on sendall raises
PeerBreaks ==
  \E c \in Connections :
    /\ steps < MaxLinkSteps
    /\ InSeq(net.sockets_list, c) /\ c \notin net.broken
    /\ net' = [net EXCEPT !.broken = @ \cup {c}]
    /\ last' = [op |-> "break", ret |-> TRUE, line |-> 0]
    /\ steps' = steps + 1
    /\ UNCHANGED <<game, cgame, ticks, snaps, cticks>>

\* a peer that has joined sends its join request once more
JoinAgain ==
  \E c \in Connections \cap DOMAIN net.clients :
    /\ steps < MaxLinkSteps
    /\ net' = [net EXCEPT !.streams[c] = Append(@, JoinRequest)]
    /\ last' = [op |-> "rejoin", ret |-> TRUE, line |-> 0]
    /\ steps' = steps + 1
    /\ UNCHANGED <<game, cgame, ticks, snaps, cticks>>

\* a peer that has joined sends an intent that lacks a field
SendMalformed ==
  \E c \in Connections \cap DOMAIN net.clients, payload \in MalformedPayloads :
    /\ steps < MaxLinkSteps
    /\ net' = Client_send_message(net, c, payload)
    /\ last' = [op |-> "malformed", ret |-> TRUE, line |-> 0]
    /\ steps' = steps + 1
    /\ UNCHANGED <<game, cgame, ticks, snaps, cticks>>

\* the sends and the passes of these sessions
LinkSend == (\A c \in Connections : net.sent[c] < MaxLinkSends) /\ ClientSend

LinkPass == ticks < MaxLinkPasses /\ HostingPass

NextLink == ClientConnect \/ LinkSend \/ SendUndecodable \/ PeerBreaks \/ JoinAgain \/ SendMalformed \/ LinkPass

SpecLink == InitLink /\ [][NextLink]_vars

\* C21: a send that fails during a broadcast ends in the disconnect of that
\* client - it is no client any more and its player is out of the world -
\* and the main loop of the host goes on: it never waits for the world lock
C21_SendFailureDisconnects ==
  /\ ~net.hung
  /\ \A pid \in net.failed :
       pid \notin DOMAIN game.players /\ \A c \in DOMAIN net.clients : net.clients[c] # pid

\* C22: a peer that has sent a frame that cannot be decoded stays connected
\* and its player stays in the world, unless its connection broke
C22_UndecodableFrameDropped ==
  \A c \in net.garbled \ net.broken :
    c \in DOMAIN net.clients /\ net.clients[c] \in DOMAIN game.players

\* the players of the world other than the host's own
RemotePlayers(g) == DOMAIN g.players \ {0}

\* the players of the clients that have joined and are connected
ClientPlayers(n) == { n.clients[c] : c \in DOMAIN n.clients }

\* C32: after any sequence of accepts, join requests, inputs, send failures
\* and disconnects the remote players of the host's world are the players
\* of the joined clients that are connected: no player is left without a
\* connection
C32_PlayersAreClients == RemotePlayers(game) = ClientPlayers(net)

\* C33: an input that decodes but lacks a required field, or that comes
\* from a connection that has not joined, is dropped: the main loop of the
\* host goes on
C33_MalformedInputDropped == ~net.crashed

\* C23: the world of the host never holds more than MAX_PLAYERS players
C23_AtMostMaxPlayers == Cardinality(DOMAIN game.players) <= MAX_PLAYERS

\* ------------------------------------------------------------------------
\* A power line longer than the search of the power engine, on the default
\* screen
\* ------------------------------------------------------------------------
MaxChainTicks == 8

\* AVAILABLE_RESOLUTIONS, the default entry
DefaultScreenW == 1280
DefaultScreenH == 768

\* the player walks to the tile before each placement
RECURSIVE BuildAll(_, _)
BuildAll(g, plan) ==
  IF plan = << >> THEN g
  ELSE BuildAll(action_place_structure(
                  [g EXCEPT !.players[0].world_x = grid_to_world_center(Head(plan)[2], Head(plan)[3])[1],
                            !.players[0].world_y = grid_to_world_center(Head(plan)[2], Head(plan)[3])[2]],
                  0, Head(plan)[1], Head(plan)[2], Head(plan)[3], Head(plan)[4], 0).game,
                Tail(plan))

\* a generator at each end of a line of 15 poles, every node POWER_RADIUS
\* from the next one and farther from all the others: row 3 eastwards, one
\* pole at the turn, row 9 back westwards
ChainPlan ==
  << <<BUILDING_COALGENERATOR, 0, 3, EAST>> >>
  \o [k \in 1..7 |-> <<BUILDING_POWERPOLE, 5 * k, 3, EAST>>]
  \o << <<BUILDING_POWERPOLE, 35, 6, EAST>> >>
  \o [k \in 1..7 |-> <<BUILDING_POWERPOLE, 40 - 5 * k, 9, EAST>>]
  \o << <<BUILDING_COALGENERATOR, 0, 9, EAST>> >>

ChainWorld ==
  BuildAll(Stocked(setup_world(BlankGame("host", DefaultScreenW \div TILE_SIZE,
                                         (DefaultScreenH - UI_HEIGHT) \div TILE_SIZE), MainTerrain)),
           ChainPlan)

InitChain ==
  /\ game = ChainWorld
  /\ Idle

ChainTick == TickUpTo(MaxChainTicks)

NextChain == ChainTick \/ Feed

SpecChain == InitChain /\ [][NextChain]_vars

\* C24: the networks a run of update_power_grid discovers in the world are
\* pairwise disjoint: no power node is a member of two networks
C24_NetworksDisjoint ==
  \A i, j \in 1..Len(Components(game)) :
    i < j => \A k \in 1..Len(Components(game)[i]) : ~InSeq(Components(game)[j], Components(game)[i][k])

\* ------------------------------------------------------------------------
\* One generator, one battery and five consumers
\* ------------------------------------------------------------------------

\* a generator, a battery within POWER_RADIUS of it and five Reconstructors
\* within POWER_RADIUS of the battery: the demand is above the generation
\* and below the generation plus the discharge rate of the battery
BatteryPlan ==
  << <<BUILDING_COALGENERATOR, 17, 2, EAST>>, <<BUILDING_BATTERY, 13, 2, EAST>>,
     <<BUILDING_RECONSTRUCTOR, 12, 1, EAST>>, <<BUILDING_RECONSTRUCTOR, 12, 3, EAST>>,
     <<BUILDING_RECONSTRUCTOR, 14, 1, EAST>>, <<BUILDING_RECONSTRUCTOR, 14, 3, EAST>>,
     <<BUILDING_RECONSTRUCTOR, 15, 2, EAST>> >>

InitBattery ==
  /\ game = PlaceAll(Stocked(NewGame("host", MainTerrain)), BatteryPlan)
  /\ Idle

SpecBattery == InitBattery /\ [][NextPower]_vars

\* what the batteries of the nodes can give in delta_time, limited by their
\* discharge rate and by their charge
CanDischarge(g, nodes, delta_time) ==
  SeqSum([k \in 1..Len(nodes) |->
            IF is_power_storage(g.structures[nodes[k]]) THEN battery_can_give(g.structures[nodes[k]], delta_time)
            ELSE 0])

\* C25: a run of update_power_grid marks the consumers attached to a
\* component powered only if its generation over the frame plus what its
\* batteries can give in the frame - limited by discharge rate and by charge -
\* covers the demand over the frame
C25_PoweredOnlyIfSupplied ==
  \A pick \in Picks :
    \A k \in 1..Len(Components(game)) : \A cid \in Consumers(game) :
      (AttachedTo(game, cid, Components(game)[k])
         /\ update_power_grid(game, FrameMs, pick).structures[cid].is_powered)
        => Generation(game, Components(game)[k]) * FrameMs + CanDischarge(game, Components(game)[k], FrameMs)
             >= Demand(game, Components(game)[k]) * FrameMs

\* ------------------------------------------------------------------------
\* The coal buffer of a generator and the generation the engine counts
\* ------------------------------------------------------------------------

\* the power engine ran in the frame that led to this state
EngineRan == last.op = "tick" /\ game.power_grid_update_timer = 0

SupplyFrames == 60
MaxSupplyTicks == 14
MaxSupplySteps == 2

SupplyPlan ==
  << <<BUILDING_DRILL, 3, 1, EAST>>, <<BUILDING_TURRET, 4, 1, EAST>>,
     <<BUILDING_DRILL, 16, 2, EAST>>, <<BUILDING_COALGENERATOR, 17, 2, EAST>>,
     <<BUILDING_CONVEYOR, 16, 1, NORTH>>, <<BUILDING_CONVEYOR, 16, 0, WEST>> >>
  \o [k \in 1..5 |-> <<BUILDING_CONVEYOR, 16 - k, 0, WEST>>]

SupplyWorld ==
  CHOOSE after \in { RunFrames(built, SupplyFrames) :
                       built \in {PlaceAll(Stocked(NewGame("host", MainTerrain)), SupplyPlan)} } : TRUE

InitSupply ==
  /\ game = SupplyWorld
  /\ Idle

SupplyTick == TickUpTo(MaxSupplyTicks)

SupplyTypes == {BUILDING_CONVEYOR, BUILDING_WALL}

\* the tile next to the Core, where the belt ends
SupplyEnd == <<11, 0>>

SupplyPlace ==
  \E b \in SupplyTypes :
    HandledUpTo("place", action_place_structure(game, 0, b, SupplyEnd[1], SupplyEnd[2], WEST, 0), MaxSupplySteps)

SupplyRemove == HandledUpTo("remove", action_remove_structure(game, 0, SupplyEnd[1], SupplyEnd[2]), MaxSupplySteps)

SupplyUpgrade == HandledUpTo("upgrade", action_upgrade_structure(game, 0, SupplyEnd[1], SupplyEnd[2]), MaxSupplySteps)

NextSupply == SupplyTick \/ SupplyPlace \/ SupplyRemove \/ SupplyUpgrade

SpecSupply == InitSupply /\ [][NextSupply]_vars

\* the items a structure holds: the count a transfer changes
Holding(g, sid) ==
  CASE sid[3] = BUILDING_DRILL -> g.structures[sid].resource_held_count
    [] sid[3] = BUILDING_CONVEYOR -> g.structures[sid].item_count
    [] sid[3] = BUILDING_TURRET -> g.structures[sid].ammo
    [] sid[3] = BUILDING_COALGENERATOR -> g.structures[sid].coal_buffer
    [] OTHER -> 0

\* the counts other than the sender's that differ between two worlds: the
\* holdings of the structures and the global resources
Changed(before, after, sender) ==
  { <<"structure", sid>> : sid \in { t \in DOMAIN before.structures \ {sender} : Holding(after, t) # Holding(before, t) } }
    \cup { <<"resource", kind>> : kind \in { k \in DOMAIN before.resources : after.resources[k] # before.resources[k] } }

\* by how much a count has risen
Rise(before, after, c) ==
  IF c[1] = "structure" THEN Holding(after, c[2]) - Holding(before, c[2])
  ELSE after.resources[c[2]] - before.resources[c[2]]

Senders(g) == {sid \in DOMAIN g.structures : sid[3] \in {BUILDING_DRILL, BUILDING_CONVEYOR}}

\* the item Drill.update mines in this frame
Mined(s, dt) ==
  IF s.building_type = BUILDING_DRILL /\ s.is_on_patch /\ s.resource_type_held # NoRes
       /\ s.mining_timer + dt >= Drill_speed(s)
  THEN 1 ELSE 0

\* the push of a Drill or a Conveyor, as update makes it
Push(g, sid, pick) ==
  IF sid[3] = BUILDING_DRILL THEN Drill_try_output_resource(g, sid, pick)
  ELSE try_accept_item(g, get_neighbor(g, g.structures[sid], g.structures[sid].orientation), g.structures[sid].item_type)

\* C36: a push of a Drill or a Conveyor that succeeds raises exactly one
\* count of a receiver - the item_count of a Conveyor, the ammo of a Turret,
\* the coal buffer of a generator or, at the Core, a global resource - by
\* exactly 1, and a push that fails leaves the world as it was; in update
\* the sender loses exactly 1 item when its push succeeded, no item when it
\* failed or was not made, and no other count changes
C36_TransfersConserveItems ==
  \A sid \in Senders(game) : \A pick \in 0..3 :
    /\ Holding(game, sid) > 0 =>
         LET out == Push(game, sid, pick)
             got == Changed(game, out.game, sid)
         IN /\ out.ret => Cardinality(got) = 1 /\ \A c \in got : Rise(game, out.game, c) = 1
            /\ out.ret => Holding(out.game, sid) = Holding(game, sid)
            /\ ~out.ret => out.game = game
    /\ \A dt \in TickLengths :
         LET after == Structure_update(game, sid, dt, pick)
             got == Changed(game, after, sid)
         IN /\ DOMAIN after.structures = DOMAIN game.structures
            /\ Cardinality(got) <= 1
            /\ \A c \in got : Rise(game, after, c) = 1
            /\ Holding(after, sid) = Holding(game, sid) + Mined(game.structures[sid], dt) - Cardinality(got)

\* the counts a frame of a sender raises
Fed(g, sid, pick) == Changed(g, Structure_update(g, sid, FrameMs, pick), sid)

\* in one world the last Conveyor of the belt hands an item to the Core and
\* a Conveyor hands one to the next Conveyor
C36_Witness ==
  /\ last.op = "tick"
  /\ \E sid \in Senders(game) : \E pick \in 0..3 : \E kind \in DOMAIN game.resources :
       sid[3] = BUILDING_CONVEYOR /\ Fed(game, sid, pick) = { <<"resource", kind>> }
  /\ \E sid \in Senders(game) : \E pick \in 0..3 : \E belt \in DOMAIN game.structures :
       sid[3] = BUILDING_CONVEYOR /\ belt[3] = BUILDING_CONVEYOR /\ Fed(game, sid, pick) = { <<"structure", belt>> }

\* ------------------------------------------------------------------------
\* A purse nearly empty: the host has built until the copper that is left
\* pays for one Wall, then two clients join and send their intents
\* ------------------------------------------------------------------------
SpendPlan ==
  [k \in 1..6 |-> <<BUILDING_TURRET, 3 + k, 2, EAST>>] \o << <<BUILDING_WALL, 12, 2, EAST>> >>

InitPurse ==
  /\ game = PlaceAll(NewGame("host", MainTerrain), SpendPlan) /\ net = StartedServer
  /\ cgame = NewClient
  /\ last = [op |-> "init", ret |-> TRUE, line |-> 0]
  /\ steps = 0 /\ ticks = 0 /\ snaps = 0 /\ cticks = 0

SpecPurse == InitPurse /\ [][NextNet]_vars

\* the place, remove and upgrade intents of the clients
PurseIntents == {a \in NetPayloads : a.action \in {"place", "remove", "upgrade"}}

\* an intent of player p as the queue holds it
Queued(p, a) == [player_id |-> p, payload |-> a, conn |-> "a", serial |-> 1]

NonNegative(resources) == \A res \in DOMAIN resources : resources[res] \in Nat

Restored(g) == LoadGame("host", get_full_snapshot(g), 0)

\* every Drill that mines a patch is on its patch in the restored world
DrillsKeepMining(g, back) ==
  \A sid \in DOMAIN g.structures :
    (sid[3] = BUILDING_DRILL /\ g.structures[sid].is_on_patch)
      => (sid \in DOMAIN back.structures /\ back.structures[sid].is_on_patch)

\* every enemy heads for the same point in the restored world
EnemiesKeepCourse(g, back) ==
  \A i \in 1..Len(g.enemies) :
    \E k \in 1..Len(back.enemies) :
      /\ back.enemies[k].network_id = g.enemies[i].network_id
      /\ back.enemies[k].target_core_coords = g.enemies[i].target_core_coords

\* every projectile has its damage and its target in the restored world
ProjectilesKeepAim(g, back) ==
  \A j \in 1..Len(g.projectiles) :
    \E k \in 1..Len(back.projectiles) :
      /\ back.projectiles[k].network_id = g.projectiles[j].network_id
      /\ back.projectiles[k].damage = g.projectiles[j].damage
      /\ back.projectiles[k].target_enemy_id = g.projectiles[j].target_enemy_id

\* a wave in progress has its quota and its spawned count in the restored world
WaveKeepsQuota(g, back) ==
  (g.in_wave /\ g.enemies_spawned_this_wave < g.enemies_to_spawn_this_wave)
    => /\ back.in_wave
       /\ back.enemies_to_spawn_this_wave = g.enemies_to_spawn_this_wave
       /\ back.enemies_spawned_this_wave = g.enemies_spawned_this_wave

\* C40: the world restored from its own full snapshot goes on as the
\* original does: the Drills on a patch keep mining, the enemies keep
\* heading for the Core, the projectiles keep their damage and target, and
\* a wave in progress keeps its quota
C40_RestoredBehavesAlike ==
  /\ DrillsKeepMining(game, Restored(game))
  /\ EnemiesKeepCourse(game, Restored(game))
  /\ ProjectilesKeepAim(game, Restored(game))
  /\ WaveKeepsQuota(game, Restored(game))

====
